---- MODULE Spec2Model ----
(***************************************************************************)
(* Model of the cNGN client's crypto core: the AES-256-CBC engine of       *)
(* src/lib/aes.ts and the Ed25519/box decryption engine of                 *)
(* src/lib/ed25519.ts.                                                     *)
(*                                                                         *)
(* Data representation                                                     *)
(*   bytes / Buffer      sequence of 0..255                                *)
(*   JS string           sequence of UTF-16 code units 0..65535            *)
(*   base64 text         sequence of symbols: 0..63 a sextet of the        *)
(*                       alphabet, 64 the pad '=', 65 a character the      *)
(*                       decoder skips (white space)                       *)
(* The library primitives (SHA-256, the AES block transform, the box) are  *)
(* not code of this repository: SHA-256 is a table of the real digests of  *)
(* the strings used, the block transform is a keyed bijection on 16-byte   *)
(* blocks, the box is a choice of the environment.                         *)
(***************************************************************************)
EXTENDS Integers, Sequences, FiniteSets, TLC

\* ------------------------------------------------------------------ bounds
\* Length of the ASCII prefix that puts a character across a block boundary.
PrefixLen == 15
\* Zero bytes in front of the marker in a private key body.
PrefixZeros == 10
\* Sealed messages carry up to MaxBody bytes between nonce and public key,
\* besides the fixed lengths.
MaxBody == 1
\* `await sodium.ready` completions counted, up to MaxAwaits.
MaxAwaits == 2

\* --------------------------------------------------------- program constants
\* AES block size = IV length: crypto.randomBytes(16), 'aes-256-cbc'.
BlockSize == 16

\* ------------------------------------------------------------------ bytes
Min(a, b) == IF a < b THEN a ELSE b
Max(a, b) == IF a > b THEN a ELSE b

RECURSIVE Xor8(_, _)
\* JS `a ^ b` on two byte values.
Xor8(a, b) ==
  IF a = 0 THEN b
  ELSE IF b = 0 THEN a
  ELSE ((a + b) % 2) + 2 * Xor8(a \div 2, b \div 2)

\* `a.map((byte, i) => byte ^ b[i])`: a result as long as a; b is at least as long.
XorBytes(a, b) == [i \in 1..Len(a) |-> Xor8(a[i], b[i])] \o <<>>

Fill(n, v) == [i \in 1..n |-> v] \o <<>>

\* (Mutant: as String.prototype.substring, an end before the start swaps
\* the two.)
subarraySwapping(buf, start, end) ==
  LET n == Len(buf)
      s == IF start < 0 THEN Max(n + start, 0) ELSE Min(start, n)
      e == IF end < 0 THEN Max(n + end, 0) ELSE Min(end, n)
  IN  IF e = s THEN <<>>
      ELSE IF e < s THEN SubSeq(buf, e + 1, s)
      ELSE SubSeq(buf, s + 1, e)

\* Buffer.prototype.subarray(start, end): negative indices count from the
\* end, both are clamped to [0, length], an inverted range is empty.
subarray(buf, start, end) ==
  LET n == Len(buf)
      s == IF start < 0 THEN Max(n + start, 0) ELSE Min(start, n)
      e == IF end < 0 THEN Max(n + end, 0) ELSE Min(end, n)
  IN  IF e <= s THEN <<>> ELSE SubSeq(buf, s + 1, e)

\* ----------------------------------------------------------------- SHA-256
\* crypto.createHash('sha256').update(s).digest(): the digests of the
\* passphrases and modifiers the model uses.
sha256(s) ==
  CASE s = "" ->
         <<227, 176, 196, 66, 152, 252, 28, 20, 154, 251, 244, 200, 153, 111, 185, 36,
           39, 174, 65, 228, 100, 155, 147, 76, 164, 149, 153, 27, 120, 82, 184, 85>>
    [] s = "myEncryptionKey" ->
         <<40, 123, 35, 128, 224, 94, 243, 177, 101, 124, 239, 192, 190, 224, 22, 247,
           172, 174, 43, 126, 114, 62, 77, 186, 225, 83, 74, 148, 22, 132, 95, 56>>
    [] s = "otherKey" ->
         <<66, 153, 212, 140, 91, 135, 11, 96, 0, 144, 57, 17, 243, 196, 70, 67,
           99, 70, 164, 5, 120, 112, 119, 205, 48, 32, 11, 151, 172, 68, 126, 165>>
    [] s = "m1" ->
         <<202, 13, 242, 201, 90, 161, 68, 193, 208, 255, 47, 243, 200, 249, 103, 253,
           193, 222, 158, 240, 196, 18, 11, 55, 38, 65, 103, 1, 181, 25, 214, 25>>
    [] s = "m2" ->
         <<41, 193, 178, 137, 231, 82, 33, 149, 179, 98, 228, 79, 84, 224, 84, 112,
           182, 154, 210, 5, 64, 171, 96, 161, 138, 5, 229, 191, 105, 81, 241, 61>>
    [] s = "mod" ->
         <<229, 92, 255, 200, 26, 90, 216, 207, 232, 82, 57, 217, 68, 163, 174, 149,
           19, 100, 90, 158, 237, 121, 188, 136, 79, 81, 184, 11, 39, 96, 252, 70>>

\* ------------------------------------------------------------------ base64
\* buf.toString('base64'): 3 bytes -> 4 sextets, the last group padded.
base64Encode(b) ==
  LET n == Len(b)
      at(i) == IF i <= n THEN b[i] ELSE 0
  IN  <<>> \o [j \in 1..(4 * ((n + 2) \div 3)) |->
        LET q == (j - 1) \div 4
            r == (j - 1) % 4
            b1 == at(3 * q + 1)
            b2 == at(3 * q + 2)
            b3 == at(3 * q + 3)
        IN  CASE r = 0 -> b1 \div 4
              [] r = 1 -> (b1 % 4) * 16 + (b2 \div 16)
              [] r = 2 -> IF 3 * q + 2 > n THEN 64 ELSE (b2 % 16) * 4 + (b3 \div 64)
              [] r = 3 -> IF 3 * q + 3 > n THEN 64 ELSE b3 % 64]

\* The sextets the lenient decoder reads: the text is cut at the first pad
\* and skipped characters are dropped.
IsSextet(x) == x < 64
sextetsOf(t) ==
  LET pads == {i \in 1..Len(t) : t[i] = 64}
      cut == IF pads = {} THEN Len(t) + 1
             ELSE CHOOSE i \in pads : \A j \in pads : i <= j
  IN  SelectSeq(SubSeq(t, 1, cut - 1), IsSextet)

\* Buffer.from(text, 'base64'): never throws; 4 sextets -> 3 bytes, a
\* trailing group of 2 or 3 sextets -> 1 or 2 bytes.
base64Decode(t) ==
  LET s == sextetsOf(t)
      m == Len(s)
  IN  <<>> \o [k \in 1..((m * 3) \div 4) |->
        LET q == (k - 1) \div 3
            r == (k - 1) % 3
        IN  CASE r = 0 -> s[4 * q + 1] * 4 + (s[4 * q + 2] \div 16)
              [] r = 1 -> (s[4 * q + 2] % 16) * 16 + (s[4 * q + 3] \div 4)
              [] r = 2 -> (s[4 * q + 3] % 4) * 64 + s[4 * q + 4]]

\* The base64 StringDecoder behind cipher.update(.., 'base64') and
\* cipher.final('base64'): write() emits whole 3-byte groups and keeps the
\* rest, end() emits what is kept and the last chunk, padded.
base64Write(chunk) == base64Encode(SubSeq(chunk, 1, Len(chunk) - (Len(chunk) % 3)))
\* (Mutant: end() emits what write() kept and drops the last chunk.)
base64EndDropsFinal(chunk, fin) ==
  base64Encode(SubSeq(chunk, Len(chunk) - (Len(chunk) % 3) + 1, Len(chunk)))
base64End(chunk, fin) ==
  base64Encode(SubSeq(chunk, Len(chunk) - (Len(chunk) % 3) + 1, Len(chunk)) \o fin)

\* ------------------------------------------------------------------- UTF-8
IsHigh(u) == u \in 55296..56319
IsLow(u) == u \in 56320..57343
IsCont(x) == x \in 128..191

encodeCodePoint(cp) ==
  IF cp < 128 THEN <<cp>>
  ELSE IF cp < 2048 THEN <<192 + (cp \div 64), 128 + (cp % 64)>>
  ELSE IF cp < 65536
    THEN <<224 + (cp \div 4096), 128 + ((cp \div 64) % 64), 128 + (cp % 64)>>
  ELSE <<240 + (cp \div 262144), 128 + ((cp \div 4096) % 64),
         128 + ((cp \div 64) % 64), 128 + (cp % 64)>>

RECURSIVE utf8Encode(_)
\* The 'utf8' input encoding of cipher.update(data, 'utf8', ..): a surrogate
\* pair is one 4-byte character, an unpaired surrogate is written as U+FFFD.
utf8Encode(s) ==
  IF Len(s) = 0 THEN <<>>
  ELSE IF IsHigh(s[1]) /\ Len(s) >= 2 /\ IsLow(s[2])
    THEN encodeCodePoint(65536 + (s[1] - 55296) * 1024 + (s[2] - 56320))
         \o utf8Encode(SubSeq(s, 3, Len(s)))
  ELSE IF IsHigh(s[1]) \/ IsLow(s[1])
    THEN <<239, 191, 189>> \o utf8Encode(Tail(s))
  ELSE encodeCodePoint(s[1]) \o utf8Encode(Tail(s))

\* Bytes a lead byte announces (0: not a lead byte of a well-formed sequence).
seqLen(x) ==
  IF x < 128 THEN 1
  ELSE IF x \in 194..223 THEN 2
  ELSE IF x \in 224..239 THEN 3
  ELSE IF x \in 240..244 THEN 4
  ELSE 0

\* Is x acceptable as the k-th byte (k >= 2) of a sequence led by lead.
contOk(lead, k, x) ==
  IF k = 2
    THEN CASE lead = 224 -> x \in 160..191
           [] lead = 237 -> x \in 128..159
           [] lead = 240 -> x \in 144..191
           [] lead = 244 -> x \in 128..143
           [] OTHER -> IsCont(x)
    ELSE IsCont(x)

\* Length of the longest well-formed prefix of the sequence starting at i.
validRun(b, i) ==
  LET L == seqLen(b[i])
      ok(k) == i + k - 1 <= Len(b) /\ contOk(b[i], k, b[i + k - 1])
  IN  IF L <= 1 THEN 1
      ELSE IF ~ok(2) THEN 1
      ELSE IF L = 2 THEN 2
      ELSE IF ~ok(3) THEN 2
      ELSE IF L = 3 THEN 3
      ELSE IF ~ok(4) THEN 3
      ELSE 4

decodeAt(b, i, L) ==
  CASE L = 1 -> <<b[i]>>
    [] L = 2 -> <<(b[i] - 192) * 64 + (b[i + 1] - 128)>>
    [] L = 3 -> <<(b[i] - 224) * 4096 + (b[i + 1] - 128) * 64 + (b[i + 2] - 128)>>
    [] L = 4 ->
         LET cp == (b[i] - 240) * 262144 + (b[i + 1] - 128) * 4096
                   + (b[i + 2] - 128) * 64 + (b[i + 3] - 128) - 65536
         IN  <<55296 + (cp \div 1024), 56320 + (cp % 1024)>>

RECURSIVE utf8DecodeFrom(_, _)
\* The character of a well-formed sequence, or U+FFFD for the longest
\* ill-formed run, and the decoding of what follows.
utf8DecodeFrom(b, i) ==
  IF i > Len(b) THEN <<>>
  ELSE IF seqLen(b[i]) >= 1 /\ validRun(b, i) = seqLen(b[i])
    THEN decodeAt(b, i, seqLen(b[i])) \o utf8DecodeFrom(b, i + seqLen(b[i]))
  ELSE <<65533>> \o utf8DecodeFrom(b, i + validRun(b, i))

\* buf.toString('utf8'): an ill-formed sequence decodes to U+FFFD, never an error.
utf8Decode(b) == utf8DecodeFrom(b, 1)

\* Number of trailing bytes that start a character the chunk does not finish.
incompleteTail(b) ==
  LET n == Len(b)
      need(k) == IF k <= n THEN seqLen(b[n - k + 1]) ELSE 1
      cont(k) == k <= n /\ IsCont(b[n - k + 1])
  IN  IF n = 0 THEN 0
      ELSE IF need(1) > 1 THEN 1
      ELSE IF ~cont(1) THEN 0
      ELSE IF need(2) > 2 THEN 2
      ELSE IF ~cont(2) THEN 0
      ELSE IF need(3) > 3 THEN 3
      ELSE 0

\* The utf8 StringDecoder behind decipher.update(.., 'utf8') and
\* decipher.final('utf8'): write() holds back an unfinished character,
\* end() decodes what was held back and the last chunk.
\* (Mutant: write() decodes the whole chunk, unfinished character included.)
utf8WriteWholeChunk(chunk) == utf8Decode(chunk)
utf8Write(chunk) == utf8Decode(SubSeq(chunk, 1, Len(chunk) - incompleteTail(chunk)))
utf8End(chunk, fin) ==
  utf8Decode(SubSeq(chunk, Len(chunk) - incompleteTail(chunk) + 1, Len(chunk)) \o fin)

\* ------------------------------------------------------- AES-256-CBC library
\* The block transform behind crypto.createCipheriv('aes-256-cbc', key, iv):
\* for every 32-byte key a bijection on 16-byte blocks.
aesEncryptBlock(key, block) ==
  <<>> \o [i \in 1..BlockSize |->
            (block[(i % BlockSize) + 1] + key[i] + key[i + BlockSize]) % 256]

\* The inverse transform, behind crypto.createDecipheriv.
aesDecryptBlock(key, block) ==
  <<>> \o [i \in 1..BlockSize |->
            LET j == ((i + BlockSize - 2) % BlockSize) + 1
            IN  (block[j] - key[j] - key[j + BlockSize] + 512) % 256]

RECURSIVE cbcEncrypt(_, _, _)
\* CBC chaining over whole blocks: c_i = E(p_i xor c_{i-1}), c_0 = iv.
cbcEncrypt(key, prev, bytes) ==
  IF Len(bytes) = 0 THEN <<>>
  ELSE LET c == aesEncryptBlock(key, XorBytes(SubSeq(bytes, 1, BlockSize), prev))
       IN  c \o cbcEncrypt(key, c, SubSeq(bytes, BlockSize + 1, Len(bytes)))

RECURSIVE cbcDecrypt(_, _, _)
\* CBC decryption of whole blocks: p_i = D(c_i) xor c_{i-1}, c_0 = iv.
cbcDecrypt(key, prev, ct) ==
  IF Len(ct) = 0 THEN <<>>
  ELSE XorBytes(aesDecryptBlock(key, SubSeq(ct, 1, BlockSize)), prev)
       \o cbcDecrypt(key, SubSeq(ct, 1, BlockSize), SubSeq(ct, BlockSize + 1, Len(ct)))

\* cipher.update(plain): the ciphertext of the whole blocks of the input.
cipherUpdate(key, iv, plain) ==
  cbcEncrypt(key, iv, SubSeq(plain, 1, (Len(plain) \div BlockSize) * BlockSize))

\* (Mutant: an input of whole blocks gets no padding block.)
cipherFinalNoExtraBlock(key, iv, plain) ==
  LET full == (Len(plain) \div BlockSize) * BlockSize
      rest == SubSeq(plain, full + 1, Len(plain))
      pad == BlockSize - Len(rest)
      head == cbcEncrypt(key, iv, SubSeq(plain, 1, full))
      prev == IF full = 0 THEN iv ELSE SubSeq(head, full - BlockSize + 1, full)
  IN  IF Len(rest) = 0 THEN <<>>
      ELSE aesEncryptBlock(key, XorBytes(rest \o Fill(pad, pad), prev))

\* cipher.final(): the rest of the input, padded (PKCS#7) to one block and
\* chained on the last block update() produced.
cipherFinal(key, iv, plain) ==
  LET full == (Len(plain) \div BlockSize) * BlockSize
      rest == SubSeq(plain, full + 1, Len(plain))
      pad == BlockSize - Len(rest)
      head == cipherUpdate(key, iv, plain)
      prev == IF full = 0 THEN iv ELSE SubSeq(head, full - BlockSize + 1, full)
  IN  aesEncryptBlock(key, XorBytes(rest \o Fill(pad, pad), prev))

\* The padding check of decipher.final(): the last byte n is 1..16 and the
\* last n bytes all equal n.
\* (Mutant: only the last byte is looked at.)
padOkLastByteOnly(block) == block[BlockSize] \in 1..BlockSize
padOk(block) ==
  LET n == block[BlockSize]
  IN  /\ n \in 1..BlockSize
      /\ \A i \in (BlockSize - n + 1)..BlockSize : block[i] = n

\* ------------------------------------------------------------ JS outcomes
\* An exception object: its name and its message.
NoError == [name |-> "", message |-> ""]
Error(m) == [name |-> "Error", message |-> m]
TypeError(m) == [name |-> "TypeError", message |-> m]

\* `${err}` and error.toString(): what they make of an exception object,
\* its name alone when it has no message.
errToString(err) ==
  IF err.message = "" THEN err.name ELSE err.name \o ": " \o err.message

\* What a call gives back: a value, or an exception. For an async function
\* "returned" is the promise resolving and "threw" the promise rejecting.
Returned(v) == [kind |-> "returned", value |-> v, error |-> NoError]
Threw(e) == [kind |-> "threw", value |-> <<>>, error |-> e]

\* --------------------------------------------------------------- src/lib/aes.ts
\* createCryptoUtils(encryptionKey): the closure captures the passphrase and
\* nothing else.
createCryptoUtils(encryptionKey) == [encryptionKey |-> encryptionKey]

deriveKey(u) == sha256(u.encryptionKey)

\* (Mutant: the cipher runs on an iv mixed with the key digest, the envelope
\* carries the iv as drawn.)
encryptDataStaleIv(u, data, iv) ==
  LET key == deriveKey(u)
      used == XorBytes(iv, key)
      plain == utf8Encode(data)
      head == cipherUpdate(key, used, plain)
      encrypted == base64Write(head) \o base64End(head, cipherFinal(key, used, plain))
  IN  [iv |-> base64Encode(iv), content |-> encrypted]

\* (Mutant: a constant iv instead of the one drawn.)
encryptDataFixedIv(u, data, iv) ==
  LET key == deriveKey(u)
      fixed == Fill(BlockSize, 0)
      plain == utf8Encode(data)
      head == cipherUpdate(key, fixed, plain)
      encrypted == base64Write(head) \o base64End(head, cipherFinal(key, fixed, plain))
  IN  [iv |-> base64Encode(fixed), content |-> encrypted]

\* (Mutant: what update() and final() return is encoded chunk by chunk,
\* each chunk padded on its own.)
encryptDataTwoEncodings(u, data, iv) ==
  LET key == deriveKey(u)
      plain == utf8Encode(data)
      head == cipherUpdate(key, iv, plain)
      encrypted == base64Encode(head) \o base64Encode(cipherFinal(key, iv, plain))
  IN  [iv |-> base64Encode(iv), content |-> encrypted]

\* encryptData(data), with iv the value crypto.randomBytes(16) returned.
encryptData(u, data, iv) ==
  LET key == deriveKey(u)
      plain == utf8Encode(data)
      head == cipherUpdate(key, iv, plain)
      encrypted == base64Write(head) \o base64End(head, cipherFinal(key, iv, plain))
  IN  [iv |-> base64Encode(iv), content |-> encrypted]

\* (Mutant: decipher.final() is never called: what update() gave is returned.)
decryptDataNoFinal(u, encrypted) ==
  LET key == deriveKey(u)
      iv == base64Decode(encrypted.iv)
      ct == base64Decode(encrypted.content)
      n == Len(ct)
      held == IF n % BlockSize = 0 /\ n > 0 THEN n - BlockSize
              ELSE (n \div BlockSize) * BlockSize
  IN  IF Len(iv) # BlockSize THEN Threw(TypeError("Invalid initialization vector"))
      ELSE Returned(utf8Write(cbcDecrypt(key, iv, SubSeq(ct, 1, held))))

\* (Mutant: the key is derived from the passphrase and the iv of the call.)
decryptDataKeyFromIv(u, encrypted) ==
  LET iv == base64Decode(encrypted.iv)
      key == XorBytes(deriveKey(u), iv \o iv \o Fill(2 * BlockSize, 0))
      ct == base64Decode(encrypted.content)
      n == Len(ct)
      held == IF n % BlockSize = 0 /\ n > 0 THEN n - BlockSize
              ELSE (n \div BlockSize) * BlockSize
      chunk == cbcDecrypt(key, iv, SubSeq(ct, 1, held))
      last == cbcDecrypt(key, IF held = 0 THEN iv
                               ELSE SubSeq(ct, held - BlockSize + 1, held),
                         SubSeq(ct, held + 1, n))
  IN  IF Len(iv) # BlockSize THEN Threw(TypeError("Invalid initialization vector"))
      ELSE IF n = 0 \/ n % BlockSize # 0 THEN Threw(Error("wrong final block length"))
      ELSE IF ~padOk(last) THEN Threw(Error("bad decrypt"))
      ELSE Returned(utf8Write(chunk)
                    \o utf8End(chunk, SubSeq(last, 1, BlockSize - last[BlockSize])))

\* decryptData(encrypted).
decryptData(u, encrypted) ==
  LET key == deriveKey(u)
      iv == base64Decode(encrypted.iv)
      ct == base64Decode(encrypted.content)
      n == Len(ct)
      \* decipher.update holds the last whole block back for final()
      held == IF n % BlockSize = 0 /\ n > 0 THEN n - BlockSize
              ELSE (n \div BlockSize) * BlockSize
      chunk == cbcDecrypt(key, iv, SubSeq(ct, 1, held))
      last == cbcDecrypt(key, IF held = 0 THEN iv
                               ELSE SubSeq(ct, held - BlockSize + 1, held),
                         SubSeq(ct, held + 1, n))
  IN  IF Len(iv) # BlockSize THEN Threw(TypeError("Invalid initialization vector"))
      ELSE IF n = 0 \/ n % BlockSize # 0 THEN Threw(Error("wrong final block length"))
      ELSE IF ~padOk(last) THEN Threw(Error("bad decrypt"))
      ELSE Returned(utf8Write(chunk)
                    \o utf8End(chunk, SubSeq(last, 1, BlockSize - last[BlockSize])))

\* ------------------------------------------------------ libsodium-wrappers
\* sodium.crypto_box_NONCEBYTES, sodium.crypto_box_PUBLICKEYBYTES and the
\* sizes the library checks its arguments against.
crypto_box_NONCEBYTES == 24
crypto_box_PUBLICKEYBYTES == 32
crypto_box_MACBYTES == 16
crypto_box_SECRETKEYBYTES == 32
crypto_sign_SECRETKEYBYTES == 64

\* sodium.crypto_sign_ed25519_sk_to_curve25519(sk): a wrong length is a
\* TypeError, otherwise a 32-byte key that is a function of the seed.
crypto_sign_ed25519_sk_to_curve25519(sk) ==
  IF Len(sk) # crypto_sign_SECRETKEYBYTES
    THEN Threw(TypeError("invalid privateKey length"))
    ELSE Returned(<<>> \o [i \in 1..crypto_box_SECRETKEYBYTES |-> (3 * sk[i] + i) % 256])

\* What the box holds for the environment env = [opens, text]: when it opens,
\* a plaintext 16 bytes shorter than the ciphertext, text or not; an
\* environment that names the plaintext sealed (holds) gives that.
boxContent(ciphertext, env) ==
  IF "holds" \in DOMAIN env THEN env.holds
  ELSE IF env.text THEN Fill(Len(ciphertext) - crypto_box_MACBYTES, 100)
  ELSE Fill(Len(ciphertext) - crypto_box_MACBYTES, 255)

\* sodium.crypto_box_open_easy(ciphertext, nonce, publicKey, privateKey): the
\* wrapper checks the argument lengths in this order, then the box opens or
\* its authentication fails.
crypto_box_open_easy(ciphertext, nonce, publicKey, privateKey, env) ==
  IF Len(ciphertext) < crypto_box_MACBYTES
    THEN Threw(TypeError("ciphertext is too short"))
  ELSE IF Len(nonce) # crypto_box_NONCEBYTES
    THEN Threw(TypeError("invalid nonce length"))
  ELSE IF Len(publicKey) # crypto_box_PUBLICKEYBYTES
    THEN Threw(TypeError("invalid publicKey length"))
  ELSE IF Len(privateKey) # crypto_box_SECRETKEYBYTES
    THEN Threw(TypeError("invalid privateKey length"))
  ELSE IF ~env.opens
    THEN Threw(Error("incorrect key pair for the given ciphertext"))
  ELSE Returned(boxContent(ciphertext, env))

\* Is b a well-formed UTF-8 byte sequence.
RECURSIVE utf8Valid(_, _)
utf8Valid(b, i) ==
  IF i > Len(b) THEN TRUE
  ELSE /\ seqLen(b[i]) >= 1
       /\ validRun(b, i) = seqLen(b[i])
       /\ utf8Valid(b, i + seqLen(b[i]))

\* sodium.to_string(bytes): a fatal UTF-8 decoder.
to_string(bytes) ==
  IF utf8Valid(bytes, 1) THEN Returned(utf8Decode(bytes))
  ELSE Threw(TypeError("The encoded data was not valid."))

\* ----------------------------------------------------------- src/lib/ed25519.ts
\* Buffer.from([0x00, 0x00, 0x00, 0x40])
Marker == <<0, 0, 0, 64>>

\* buf.indexOf(pattern): the offset of the first occurrence, or -1.
indexOf(buf, pattern) ==
  LET hits == {i \in 1..(Len(buf) - Len(pattern) + 1) :
                 SubSeq(buf, i, i + Len(pattern) - 1) = pattern}
  IN  IF hits = {} THEN -1
      ELSE (CHOOSE i \in hits : \A j \in hits : i <= j) - 1

\* lines.slice(1, -1).join(''): a private key is held as its lines, what
\* privateKey.split('\n') returns.
RECURSIVE join(_)
join(lines) == IF Len(lines) = 0 THEN <<>> ELSE Head(lines) \o join(Tail(lines))

sliceLines(lines) == IF Len(lines) <= 2 THEN <<>> ELSE SubSeq(lines, 2, Len(lines) - 1)

\* createEd25519CryptoUtils(encryptionModifier?): the closure captures the
\* modifier; sodium.ready has been awaited when it is returned. The second
\* copy of the function in the file takes no modifier and passes the nonce
\* slice on as it is: the engine built with an undefined modifier.
createEd25519CryptoUtils(encryptionModifier) ==
  [encryptionModifier |-> encryptionModifier, ready |-> TRUE]

\* (Mutant: the missing marker is not checked for.)
parseOpenSSHPrivateKeyUnchecked(privateKey) ==
  LET base64PrivateKey == join(sliceLines(privateKey))
      privateKeyBuffer == base64Decode(base64PrivateKey)
      keyDataStart == indexOf(privateKeyBuffer, Marker)
  IN  Returned(subarray(privateKeyBuffer, keyDataStart + 4, keyDataStart + 68))

\* (Mutant: the key is read behind the last marker, not the first.)
parseOpenSSHPrivateKeyLastMarker(privateKey) ==
  LET base64PrivateKey == join(sliceLines(privateKey))
      privateKeyBuffer == base64Decode(base64PrivateKey)
      hits == {i \in 1..(Len(privateKeyBuffer) - 3) :
                 SubSeq(privateKeyBuffer, i, i + 3) = Marker}
      keyDataStart == IF hits = {} THEN -1
                      ELSE (CHOOSE i \in hits : \A j \in hits : i >= j) - 1
  IN  IF keyDataStart = -1 THEN Threw(Error("Unable to find Ed25519 key data"))
      ELSE Returned(subarray(privateKeyBuffer, keyDataStart + 4, keyDataStart + 68))

parseOpenSSHPrivateKey(privateKey) ==
  LET base64PrivateKey == join(sliceLines(privateKey))
      privateKeyBuffer == base64Decode(base64PrivateKey)
      keyDataStart == indexOf(privateKeyBuffer, Marker)
  IN  IF keyDataStart = -1 THEN Threw(Error("Unable to find Ed25519 key data"))
      ELSE Returned(subarray(privateKeyBuffer, keyDataStart + 4, keyDataStart + 68))

\* `if (encryptionModifier)`: undefined and the empty string are falsy.
Undefined == "<undefined>"
\* (Mutant: only undefined is falsy.)
truthyUnlessUndefined(m) == m # Undefined
truthy(m) == m # Undefined /\ m # ""

\* iv.map((byte, i) => byte ^ modHash[i]) runs over every byte of iv.
processIv(ed, iv) ==
  IF truthy(ed.encryptionModifier)
    THEN XorBytes(iv, sha256(ed.encryptionModifier))
    ELSE iv

\* Buffers and the memory behind them: a buffer is a window on a memory;
\* subarray() gives a window on the memory of the buffer it is called on,
\* Buffer.from(buffer) and buffer.map() give a buffer with a memory of its own.
Memories == {"encryptedBuffer", "Buffer.from(nonce)", "iv.map"}
Window(mem, from, len) == [mem |-> mem, from |-> from, len |-> len]
readWindow(heap, w) == SubSeq(heap[w.mem], w.from + 1, w.from + w.len)
writeWindow(heap, w, bytes) ==
  [heap EXCEPT ![w.mem] = SubSeq(@, 1, w.from) \o bytes
                            \o SubSeq(@, w.from + w.len + 1, Len(@))]
allocate(heap, mem, bytes) == [heap EXCEPT ![mem] = bytes]

\* (Mutant: the nonce window itself is handed to processIv, which writes the
\* bytes it computes back through it.)
processNonceInPlace(ed, encryptedBuffer) ==
  LET heap0 == [m \in Memories |-> IF m = "encryptedBuffer" THEN encryptedBuffer ELSE <<>>]
      nonce == Window("encryptedBuffer", 0, Min(crypto_box_NONCEBYTES, Len(encryptedBuffer)))
      heap1 == writeWindow(heap0, nonce, processIv(ed, readWindow(heap0, nonce)))
  IN  [after |-> heap1["encryptedBuffer"], finalNonce |-> readWindow(heap1, nonce)]

\* const nonce = encryptedBuffer.subarray(0, NONCEBYTES) and
\* const finalNonce = processIv(Buffer.from(nonce)), in memory: the nonce is
\* a window on encryptedBuffer, Buffer.from copies it, and processIv either
\* returns that copy or what iv.map() allocated. Gives the nonce passed on
\* and what encryptedBuffer holds afterwards.
processNonce(ed, encryptedBuffer) ==
  LET heap0 == [m \in Memories |-> IF m = "encryptedBuffer" THEN encryptedBuffer ELSE <<>>]
      nonce == Window("encryptedBuffer", 0, Min(crypto_box_NONCEBYTES, Len(encryptedBuffer)))
      heap1 == allocate(heap0, "Buffer.from(nonce)", readWindow(heap0, nonce))
      iv == Window("Buffer.from(nonce)", 0, nonce.len)
      heap2 == IF truthy(ed.encryptionModifier)
                 THEN allocate(heap1, "iv.map", processIv(ed, readWindow(heap1, iv)))
                 ELSE heap1
      finalNonce == IF truthy(ed.encryptionModifier)
                      THEN Window("iv.map", 0, iv.len)
                      ELSE iv
  IN  [after |-> heap2["encryptedBuffer"], finalNonce |-> readWindow(heap2, finalNonce)]

\* (Mutant: the ciphertext slice runs to the end of the buffer.)
sliceEncryptedBufferUncut(encryptedBuffer) ==
  [taken |-> TRUE,
   buffer |-> encryptedBuffer,
   nonce |-> subarray(encryptedBuffer, 0, crypto_box_NONCEBYTES),
   ephemeralPublicKey |->
     subarray(encryptedBuffer, -crypto_box_PUBLICKEYBYTES, Len(encryptedBuffer)),
   ciphertext |->
     subarray(encryptedBuffer, crypto_box_NONCEBYTES, Len(encryptedBuffer))]

\* The three subarray() calls on the decoded message.
sliceEncryptedBuffer(encryptedBuffer) ==
  [taken |-> TRUE,
   buffer |-> encryptedBuffer,
   nonce |-> subarray(encryptedBuffer, 0, crypto_box_NONCEBYTES),
   ephemeralPublicKey |->
     subarray(encryptedBuffer, -crypto_box_PUBLICKEYBYTES, Len(encryptedBuffer)),
   ciphertext |->
     subarray(encryptedBuffer, crypto_box_NONCEBYTES, -crypto_box_PUBLICKEYBYTES)]

FailedToDecrypt == "Failed to decrypt with the provided Ed25519 private key: "

\* (Mutant: only crypto_box_open_easy is inside the try block.)
tryOpenBoxOnly(ciphertext, finalNonce, ephemeralPublicKey, curve25519PrivateKey, env) ==
  LET decrypted == crypto_box_open_easy(ciphertext, finalNonce, ephemeralPublicKey,
                                        curve25519PrivateKey, env)
      text == to_string(decrypted.value)
  IN  IF decrypted.kind = "threw"
        THEN Threw(Error(FailedToDecrypt \o errToString(decrypted.error)))
      ELSE IF text.kind = "threw" THEN Threw(text.error)
      ELSE Returned(text.value)

\* The try block: crypto_box_open_easy, then to_string; whatever either
\* throws is caught and thrown again inside a new Error.
tryOpen(ciphertext, finalNonce, ephemeralPublicKey, curve25519PrivateKey, env) ==
  LET decrypted == crypto_box_open_easy(ciphertext, finalNonce, ephemeralPublicKey,
                                        curve25519PrivateKey, env)
      text == to_string(decrypted.value)
  IN  IF decrypted.kind = "threw"
        THEN Threw(Error(FailedToDecrypt \o errToString(decrypted.error)))
      ELSE IF text.kind = "threw"
        THEN Threw(Error(FailedToDecrypt \o errToString(text.error)))
      ELSE Returned(text.value)

NotCalled == [called |-> FALSE, ciphertext |-> <<>>, nonce |-> <<>>,
              publicKey |-> <<>>, privateKey |-> <<>>]
NoSlices == [taken |-> FALSE, buffer |-> <<>>, nonce |-> <<>>,
             ephemeralPublicKey |-> <<>>, ciphertext |-> <<>>]

\* The statements of decryptWithPrivateKey in the order they run, up to the
\* call of crypto_box_open_easy.
StepsToTheBox ==
  <<"parseOpenSSHPrivateKey", "crypto_sign_ed25519_sk_to_curve25519",
    "Buffer.from(encryptedData)", "subarray", "processIv", "crypto_box_open_easy">>

\* (Mutant: the key is parsed inside the try block.)
decryptWithPrivateKeyParsedInTry(ed, privateKey, encryptedData, env) ==
  LET fullPrivateKey == parseOpenSSHPrivateKey(privateKey)
      curve25519PrivateKey == crypto_sign_ed25519_sk_to_curve25519(fullPrivateKey.value)
      encryptedBuffer == base64Decode(encryptedData)
      slices == sliceEncryptedBuffer(encryptedBuffer)
      memory == processNonce(ed, encryptedBuffer)
      finalNonce == memory.finalNonce
  IN  IF fullPrivateKey.kind = "threw"
        THEN [parsed |-> fullPrivateKey, slices |-> NoSlices, box |-> NotCalled,
              after |-> <<>>, steps |-> <<"parseOpenSSHPrivateKey">>,
              out |-> Threw(Error(FailedToDecrypt \o errToString(fullPrivateKey.error)))]
      ELSE IF curve25519PrivateKey.kind = "threw"
        THEN [parsed |-> fullPrivateKey, slices |-> NoSlices, box |-> NotCalled,
              after |-> <<>>,
              steps |-> <<"parseOpenSSHPrivateKey", "crypto_sign_ed25519_sk_to_curve25519">>,
              out |-> Threw(curve25519PrivateKey.error)]
      ELSE [parsed |-> fullPrivateKey,
            slices |-> slices,
            after |-> memory.after,
            steps |-> StepsToTheBox,
            box |-> [called |-> TRUE, ciphertext |-> slices.ciphertext,
                     nonce |-> finalNonce, publicKey |-> slices.ephemeralPublicKey,
                     privateKey |-> curve25519PrivateKey.value],
            out |-> tryOpen(slices.ciphertext, finalNonce, slices.ephemeralPublicKey,
                            curve25519PrivateKey.value, env)]

\* decryptWithPrivateKey(privateKey, encryptedData); env is what the box does.
\* The record tells what the call did: the key parsed, the slices taken, the
\* arguments crypto_box_open_easy was called with, what encryptedBuffer holds
\* when the call settles, the statements run, and how the call settled.
decryptWithPrivateKey(ed, privateKey, encryptedData, env) ==
  LET fullPrivateKey == parseOpenSSHPrivateKey(privateKey)
      curve25519PrivateKey == crypto_sign_ed25519_sk_to_curve25519(fullPrivateKey.value)
      encryptedBuffer == base64Decode(encryptedData)
      slices == sliceEncryptedBuffer(encryptedBuffer)
      memory == processNonce(ed, encryptedBuffer)
      finalNonce == memory.finalNonce
  IN  IF fullPrivateKey.kind = "threw"
        THEN [parsed |-> fullPrivateKey, slices |-> NoSlices, box |-> NotCalled,
              after |-> <<>>, steps |-> <<"parseOpenSSHPrivateKey">>,
              out |-> Threw(fullPrivateKey.error)]
      ELSE IF curve25519PrivateKey.kind = "threw"
        THEN [parsed |-> fullPrivateKey, slices |-> NoSlices, box |-> NotCalled,
              after |-> <<>>,
              steps |-> <<"parseOpenSSHPrivateKey", "crypto_sign_ed25519_sk_to_curve25519">>,
              out |-> Threw(curve25519PrivateKey.error)]
      ELSE [parsed |-> fullPrivateKey,
            slices |-> slices,
            after |-> memory.after,
            steps |-> StepsToTheBox,
            box |-> [called |-> TRUE, ciphertext |-> slices.ciphertext,
                     nonce |-> finalNonce, publicKey |-> slices.ephemeralPublicKey,
                     privateKey |-> curve25519PrivateKey.value],
            out |-> tryOpen(slices.ciphertext, finalNonce, slices.ephemeralPublicKey,
                            curve25519PrivateKey.value, env)]

\* ------------------------------------------------------- JavaScript values
\* A value is the pair of its type and its content: for a string its code
\* units, for a number n, for a boolean TRUE or FALSE, for an array its
\* elements, for an object its members <<key, value>> in insertion order; a
\* string of which only the text matters (an error message) is held as text.
Undef == <<"undefined", <<>>>>
Null == <<"null", <<>>>>
Bool(b) == <<"boolean", b>>
Num(n) == <<"number", n>>
Str(s) == <<"string", s>>
Text(m) == <<"text", m>>
Arr(items) == <<"array", items>>
Obj(members) == <<"object", members>>
TypeOf(x) == x[1]
ContentOf(x) == x[2]

\* The property names and strings the client and its peers use.
key_status == <<115, 116, 97, 116, 117, 115>>
key_message == <<109, 101, 115, 115, 97, 103, 101>>
key_data == <<100, 97, 116, 97>>
key_error == <<101, 114, 114, 111, 114>>
key_balance == <<98, 97, 108, 97, 110, 99, 101>>
key_amount == <<97, 109, 111, 117, 110, 116>>
str_OK == <<79, 75>>
str_A == <<65>>

\* ToBoolean(x), as `||` and `if` apply it.
truthyValue(x) ==
  CASE TypeOf(x) \in {"undefined", "null"} -> FALSE
    [] TypeOf(x) = "boolean" -> ContentOf(x)
    [] TypeOf(x) = "number" -> ContentOf(x) # 0
    [] TypeOf(x) = "string" -> ContentOf(x) # <<>>
    [] TypeOf(x) = "text" -> ContentOf(x) # ""
    [] OTHER -> TRUE

\* a || b
or(a, b) == IF truthyValue(a) THEN a ELSE b

\* x?.key, and x.key for an x that is neither null nor undefined: the member
\* of an object, undefined for anything else (none of the names read is a
\* property of a string, a number, a boolean or an array).
getMember(x, key) ==
  LET hits == IF TypeOf(x) = "object" THEN {i \in 1..Len(ContentOf(x)) : ContentOf(x)[i][1] = key} ELSE {}
  IN  IF hits = {} THEN Undef
      ELSE ContentOf(x)[CHOOSE i \in hits : \A j \in hits : i >= j][2]

\* { ...x, key: value }: the members of x, key set to value (in place when x
\* has the key, behind the others when it has not).
spreadWith(x, key, value) ==
  LET members == IF TypeOf(x) = "object" THEN ContentOf(x) ELSE <<>>
      has == \E i \in 1..Len(members) : members[i][1] = key
  IN  Obj(IF has
            THEN [i \in 1..Len(members) |->
                    IF members[i][1] = key THEN <<key, value>> ELSE members[i]]
            ELSE Append(members, <<key, value>>))

\* -------------------------------------------------------------------- JSON
RECURSIVE digits(_)
digits(n) == IF n < 10 THEN <<48 + n>> ELSE digits(n \div 10) \o <<48 + (n % 10)>>

\* A string between quotes (no character of the strings used needs an escape).
quote(s) == <<34>> \o s \o <<34>>

IsDefined(x) == TypeOf(x) # "undefined"
MemberDefined(m) == IsDefined(m[2])

RECURSIVE stringifyText(_)
RECURSIVE elementsText(_, _)
RECURSIVE membersText(_, _)
\* JSON.stringify of a value that is not undefined.
stringifyText(x) ==
  CASE TypeOf(x) = "null" -> <<110, 117, 108, 108>>
    [] TypeOf(x) = "boolean" -> IF ContentOf(x) THEN <<116, 114, 117, 101>>
                          ELSE <<102, 97, 108, 115, 101>>
    [] TypeOf(x) = "number" -> digits(ContentOf(x))
    [] TypeOf(x) = "string" -> quote(ContentOf(x))
    [] TypeOf(x) = "array" -> <<91>> \o elementsText(ContentOf(x), 1) \o <<93>>
    [] TypeOf(x) = "object" -> <<123>> \o membersText(SelectSeq(ContentOf(x), MemberDefined), 1) \o <<125>>
\* An undefined element is written as null.
elementsText(items, i) ==
  IF i > Len(items) THEN <<>>
  ELSE (IF i > 1 THEN <<44>> ELSE <<>>)
       \o (IF IsDefined(items[i]) THEN stringifyText(items[i]) ELSE <<110, 117, 108, 108>>)
       \o elementsText(items, i + 1)
\* A member whose value is undefined is left out.
membersText(members, i) ==
  IF i > Len(members) THEN <<>>
  ELSE (IF i > 1 THEN <<44>> ELSE <<>>)
       \o quote(members[i][1]) \o <<58>> \o stringifyText(members[i][2])
       \o membersText(members, i + 1)

\* JSON.stringify(x): a string, or undefined for undefined.
JSON_stringify(x) == IF IsDefined(x) THEN Str(stringifyText(x)) ELSE Undef

SyntaxError(m) == [name |-> "SyntaxError", message |-> m]

NoParse == [ok |-> FALSE, value |-> Undef, next |-> 0]
Parsed(x, next) == [ok |-> TRUE, value |-> x, next |-> next]
IsDigit(ch) == ch \in 48..57
startsWith(text, i, lit) ==
  i + Len(lit) - 1 <= Len(text) /\ SubSeq(text, i, i + Len(lit) - 1) = lit
\* The first position from i on that holds no digit.
digitsEnd(text, i) ==
  CHOOSE j \in i..(Len(text) + 1) :
    /\ \A k \in i..(j - 1) : IsDigit(text[k])
    /\ j = Len(text) + 1 \/ ~IsDigit(text[j])
RECURSIVE numberOf(_, _, _)
numberOf(text, i, j) ==
  IF j <= i THEN 0 ELSE 10 * numberOf(text, i, j - 1) + (text[j - 1] - 48)
\* The position of the quote that closes the string opened at i, 0 when a
\* character that may not stand in a string comes first or the text ends.
stringEnd(text, i) ==
  LET stops == {j \in (i + 1)..Len(text) : text[j] = 34 \/ text[j] = 92 \/ text[j] < 32}
      first == CHOOSE j \in stops : \A k \in stops : j <= k
  IN  IF stops = {} THEN 0 ELSE IF text[first] = 34 THEN first ELSE 0

RECURSIVE parseValue(_, _)
RECURSIVE parseElements(_, _, _)
RECURSIVE parseMembers(_, _, _)
\* The JSON value that starts at position i of the text: null, true, false,
\* a number without sign, fraction or exponent, a string without escapes,
\* an array, an object; no white space (the texts used hold none).
parseValue(text, i) ==
  IF i > Len(text) THEN NoParse
  ELSE IF startsWith(text, i, <<110, 117, 108, 108>>) THEN Parsed(Null, i + 4)
  ELSE IF startsWith(text, i, <<116, 114, 117, 101>>) THEN Parsed(Bool(TRUE), i + 4)
  ELSE IF startsWith(text, i, <<102, 97, 108, 115, 101>>) THEN Parsed(Bool(FALSE), i + 5)
  ELSE IF text[i] = 48 THEN Parsed(Num(0), i + 1)
  ELSE IF IsDigit(text[i])
    THEN Parsed(Num(numberOf(text, i, digitsEnd(text, i))), digitsEnd(text, i))
  ELSE IF text[i] = 34
    THEN IF stringEnd(text, i) = 0 THEN NoParse
         ELSE Parsed(Str(SubSeq(text, i + 1, stringEnd(text, i) - 1)), stringEnd(text, i) + 1)
  ELSE IF text[i] = 91
    THEN IF i < Len(text) /\ text[i + 1] = 93 THEN Parsed(Arr(<<>>), i + 2)
         ELSE parseElements(text, i + 1, <<>>)
  ELSE IF text[i] = 123
    THEN IF i < Len(text) /\ text[i + 1] = 125 THEN Parsed(Obj(<<>>), i + 2)
         ELSE parseMembers(text, i + 1, <<>>)
  ELSE NoParse
parseElements(text, i, acc) ==
  LET el == parseValue(text, i)
  IN  IF ~el.ok \/ el.next > Len(text) THEN NoParse
      ELSE IF text[el.next] = 44 THEN parseElements(text, el.next + 1, Append(acc, el.value))
      ELSE IF text[el.next] = 93 THEN Parsed(Arr(Append(acc, el.value)), el.next + 1)
      ELSE NoParse
parseMembers(text, i, acc) ==
  LET close == IF i <= Len(text) /\ text[i] = 34 THEN stringEnd(text, i) ELSE 0
      key == SubSeq(text, i + 1, close - 1)
      el == IF close # 0 /\ close < Len(text) /\ text[close + 1] = 58
              THEN parseValue(text, close + 2)
              ELSE NoParse
      \* a name written twice keeps its first place and its last value
      put == IF \E n \in 1..Len(acc) : acc[n][1] = key
               THEN [n \in 1..Len(acc) |->
                       IF acc[n][1] = key THEN <<key, el.value>> ELSE acc[n]]
               ELSE Append(acc, <<key, el.value>>)
  IN  IF ~el.ok \/ el.next > Len(text) THEN NoParse
      ELSE IF text[el.next] = 44 THEN parseMembers(text, el.next + 1, put)
      ELSE IF text[el.next] = 125 THEN Parsed(Obj(put), el.next + 1)
      ELSE NoParse

\* JSON.parse(text): the value, when the whole text is one; else a SyntaxError.
JSON_parse(text) ==
  LET top == parseValue(text, 1)
  IN  IF top.ok /\ top.next = Len(text) + 1 THEN Returned(top.value)
      ELSE Threw(SyntaxError("Unexpected token"))

\* ------------------------------------------------- src/lib/cngn.ts, the client
\* privateKey.split('\n') of a passphrase handed over as the key: one line,
\* its letters as the base64 decoder reads them.
linesOfString(text) ==
  CASE text = "myEncryptionKey" -> <<<<38, 50, 4, 39, 28, 43, 50, 41, 45, 34, 40, 39, 10, 30, 50>>>>
    [] text = "otherKey" -> <<<<40, 45, 33, 30, 43, 10, 30, 50>>>>

\* The endpoint methods, the verb of the request each of them makes, the
\* endpoint it asks for (getTransactionHistory with its default page and
\* limit, verifyWithdrawal for the reference "txn123") and the path it hands
\* to formatApiResponse.
GetMethods == {"getBalance", "getTransactionHistory", "verifyWithdrawal", "getBanks"}
PostMethods == {"withdraw", "redeemAsset", "createVirtualAccount",
                "updateExternalAccounts", "swapAsset"}
endpointOf(method) ==
  CASE method = "getBalance" -> "/balance"
    [] method = "getTransactionHistory" -> "/transactions?page=1&limit=10"
    [] method = "withdraw" -> "/withdraw"
    [] method = "verifyWithdrawal" -> "/withdraw/verify/txn123"
    [] method = "redeemAsset" -> "/redeemAsset"
    [] method = "createVirtualAccount" -> "/createVirtualAccount"
    [] method = "updateExternalAccounts" -> "/updateBusiness"
    [] method = "getBanks" -> "/banks"
    [] method = "swapAsset" -> "/swap"
pathOf(method) ==
  IF method = "getTransactionHistory" THEN "/transactions" ELSE endpointOf(method)

\* What the client hands to axiosInstance.get / axiosInstance.post.
NoEnvelope == [iv |-> <<>>, content |-> <<>>]
NoSent == [issued |-> FALSE, verb |-> "", url |-> "", hasBody |-> FALSE,
           body |-> NoEnvelope]

\* get, up to the request: axiosInstance.get(endpoint, configOverride).
getRequest(endpoint) ==
  Returned([issued |-> TRUE, verb |-> "GET", url |-> endpoint, hasBody |-> FALSE,
            body |-> NoEnvelope])

\* (Mutant: the text itself is posted, not its envelope.)
postRequestPlain(u, endpoint, data, iv) ==
  LET plainText == IF TypeOf(data) = "string" THEN data ELSE JSON_stringify(data)
  IN  IF TypeOf(plainText) # "string"
        THEN Threw(TypeError("The \"data\" argument must be of type string"))
      ELSE Returned([issued |-> TRUE, verb |-> "POST", url |-> endpoint, hasBody |-> TRUE,
                     body |-> [iv |-> <<>>, content |-> ContentOf(plainText)]])

\* post, up to the request: the payload, or its JSON text when it is no
\* string, is encrypted and the envelope posted; cipher.update refuses what
\* JSON.stringify leaves undefined, and then nothing is posted.
postRequest(u, endpoint, data, iv) ==
  LET plainText == IF TypeOf(data) = "string" THEN data ELSE JSON_stringify(data)
  IN  IF TypeOf(plainText) # "string"
        THEN Threw(TypeError("The \"data\" argument must be of type string"))
      ELSE Returned([issued |-> TRUE, verb |-> "POST", url |-> endpoint, hasBody |-> TRUE,
                     body |-> encryptData(u, ContentOf(plainText), iv)])

\* The key get and post hand to decryptWithPrivateKey: get config.privateKey,
\* post config.encryptionKey.
decryptionKey(cfg, verb) ==
  IF verb = "GET" THEN cfg.privateKey
  ELSE linesOfString(cfg.encryptionKey)

\* get and post, from the response on: response.data.data is decrypted, the
\* text parsed, and { ...response.data, data: <the parsed value> } returned.
\* Gives what decryptWithPrivateKey did and how the function settles.
\* (Mutant: a decrypted text that is no JSON is returned as it is.)
openResponseUnparsed(ed, key, responseData, env) ==
  LET did == decryptWithPrivateKey(ed, key, ContentOf(getMember(responseData, key_data)), env)
      parsed == JSON_parse(did.out.value)
  IN  [did |-> did,
       out |-> IF did.out.kind = "threw" THEN Threw(did.out.error)
               ELSE IF parsed.kind = "threw"
                 THEN Returned(spreadWith(responseData, key_data, Str(did.out.value)))
               ELSE Returned(spreadWith(responseData, key_data, parsed.value))]

openResponse(ed, key, responseData, env) ==
  LET did == decryptWithPrivateKey(ed, key, ContentOf(getMember(responseData, key_data)), env)
      parsed == JSON_parse(did.out.value)
  IN  [did |-> did,
       out |-> IF did.out.kind = "threw" THEN Threw(did.out.error)
               ELSE IF parsed.kind = "threw" THEN Threw(parsed.error)
               ELSE Returned(spreadWith(responseData, key_data, parsed.value))]

\* formatApiResponse(apiResponse, { path }).
formatApiResponse(apiResponse, path) ==
  LET data == getMember(apiResponse, key_data)
  IN  [kind |-> "resolved",
       statusCode |-> or(or(getMember(data, key_status), getMember(apiResponse, key_status)),
                         Num(200)),
       message |-> or(getMember(data, key_message), getMember(apiResponse, key_message)),
       path |-> path,
       data |-> or(or(getMember(data, key_data), data), apiResponse)]

\* An exception as get and post catch it: name, message and, for an
\* AxiosError that came with a response, that response { status, data }.
Caught(err, response) == [name |-> err.name, message |-> err.message, response |-> response]
NoCause == [name |-> "", message |-> "", response |-> Undef]

\* (Mutant: the status of the response is taken before the status in its
\* body.)
formatApiErrorOuterStatus(error, path) ==
  LET data == getMember(error.response, key_data)
  IN  [kind |-> "rejected",
       statusCode |-> or(or(getMember(error.response, key_status), getMember(data, key_status)),
                         Num(500)),
       message |-> or(or(getMember(data, key_message), Text(error.message)),
                      Text("An error occurred")),
       path |-> path,
       data |-> or(or(getMember(getMember(data, key_data), key_error), data),
                   Obj(<< <<key_error, Text(errToString(error))>> >>))]

\* formatApiError(error, { path }); an error without message has message "".
formatApiError(error, path) ==
  LET data == getMember(error.response, key_data)
  IN  [kind |-> "rejected",
       statusCode |-> or(or(getMember(data, key_status), getMember(error.response, key_status)),
                         Num(500)),
       message |-> or(or(getMember(data, key_message), Text(error.message)),
                      Text("An error occurred")),
       path |-> path,
       data |-> or(or(getMember(getMember(data, key_data), key_error), data),
                   Obj(<< <<key_error, Text(errToString(error))>> >>))]

\* await sodium.ready in createEd25519CryptoUtils: the function goes on once
\* the library's promise has resolved.
\* (Mutant: the function goes on without awaiting.)
readyNotAwaited(lib) == TRUE
readyAwaited(lib) == lib.ready

\* ------------------------------------------------------------ inputs modelled
Passphrases == {"myEncryptionKey", "otherKey"}
\* config.encryptionModifier of the client an engine is built for.
SymModifiers == {Undefined, "m1", "m2"}
EngineIds == {1, 2}

\* 'A', the euro sign (3 bytes in UTF-8), U+1F600 as its surrogate pair
\* (4 bytes), and an unpaired high surrogate.
Chars == {<<65>>, <<8364>>, <<55357, 56832>>, <<55296>>}

\* The plaintexts: nothing or one of the characters, alone or behind
\* PrefixLen letters, where its bytes lie across the first block boundary.
Plaintexts == {Fill(k, 65) \o t : k \in {0, PrefixLen}, t \in {<<>>} \cup Chars}

\* A string without unpaired surrogates.
RECURSIVE WellFormed(_)
WellFormed(s) ==
  IF Len(s) = 0 THEN TRUE
  ELSE IF IsHigh(s[1]) THEN Len(s) >= 2 /\ IsLow(s[2]) /\ WellFormed(SubSeq(s, 3, Len(s)))
  ELSE ~IsLow(s[1]) /\ WellFormed(Tail(s))

\* The outcomes of crypto.randomBytes(n) the model draws from.
randomBytes(n) == {Fill(n, 0), <<>> \o [i \in 1..n |-> (37 * i + 11) % 256]}

\* What may happen to an envelope between encryptData and decryptData.
Tampers == {"iv-bit", "iv-short", "content-first", "content-last", "content-short"}

flipFirst(b) == <<Xor8(b[1], 1)>> \o Tail(b)
flipLast(b) == SubSeq(b, 1, Len(b) - 1) \o <<Xor8(b[Len(b)], 1)>>
dropLast(b) == SubSeq(b, 1, Len(b) - 1)

tamper(kind, e) ==
  LET iv == base64Decode(e.iv)
      ct == base64Decode(e.content)
  IN  CASE kind = "iv-bit" -> [e EXCEPT !.iv = base64Encode(flipFirst(iv))]
        [] kind = "iv-short" -> [e EXCEPT !.iv = base64Encode(dropLast(iv))]
        [] kind = "content-first" -> [e EXCEPT !.content = base64Encode(flipFirst(ct))]
        [] kind = "content-last" -> [e EXCEPT !.content = base64Encode(flipLast(ct))]
        [] kind = "content-short" -> [e EXCEPT !.content = base64Encode(dropLast(ct))]

\* encryptionModifier of the asymmetric engine: absent, empty, or a string.
EdModifiers == {Undefined, "", "mod"}

Ramp(n) == <<>> \o [i \in 1..n |-> i + 100]

\* Decoded key bodies prefix || marker? || rest: the body of the repository's
\* test key, a body with nothing before the marker and bytes after the key, a
\* body whose key holds the marker again, a body whose prefix holds the
\* marker, bodies without the marker, and a body cut short after the marker.
KeyBodies ==
  { [prefix |-> Fill(PrefixZeros, 0), marked |-> TRUE, rest |-> Fill(64, 1)],
    [prefix |-> <<>>, marked |-> TRUE, rest |-> Ramp(64) \o <<5, 5>>],
    [prefix |-> <<64, 0, 0>>, marked |-> TRUE, rest |-> Ramp(30) \o Marker \o Ramp(40)],
    [prefix |-> <<7>> \o Marker \o <<9>>, marked |-> TRUE, rest |-> Ramp(64)],
    [prefix |-> Fill(PrefixZeros, 0), marked |-> FALSE, rest |-> Fill(64, 1)],
    [prefix |-> <<>>, marked |-> FALSE, rest |-> <<>>],
    [prefix |-> <<0, 0, 64>>, marked |-> FALSE, rest |-> Ramp(64)],
    [prefix |-> <<>>, marked |-> TRUE, rest |-> Fill(40, 1)] }

bodyOf(k) == k.prefix \o (IF k.marked THEN Marker ELSE <<>>) \o k.rest

\* How the body is written as text: between a header and a footer line on
\* one line or on lines of 70 characters, as a single line, or without the
\* footer line.
Framings == {"pem", "pem70", "one-line", "no-footer"}

RECURSIVE chunks(_, _)
chunks(text, w) ==
  IF Len(text) <= w THEN <<text>>
  ELSE <<SubSeq(text, 1, w)>> \o chunks(SubSeq(text, w + 1, Len(text)), w)

\* "-----BEGIN ...-----" and "-----END ...-----": '-' and letters are
\* characters the base64 decoder reads, the blank is skipped.
HeaderLine == <<62, 62, 1, 4, 6, 8, 13, 65, 62, 62>>
FooterLine == <<62, 62, 4, 13, 3, 65, 62, 62>>

\* The private key text, as the lines privateKey.split('\n') returns.
privateKeyText(k) ==
  LET text == base64Encode(bodyOf(k.body))
  IN  CASE k.framing = "pem" -> <<HeaderLine, text, FooterLine>>
        [] k.framing = "pem70" -> <<HeaderLine>> \o chunks(text, 70) \o <<FooterLine>>
        [] k.framing = "one-line" -> <<text>>
        [] k.framing = "no-footer" -> <<HeaderLine, text>>

PrivateKeys ==
  {[body |-> b, framing |-> "pem"] : b \in KeyBodies}
  \cup {[body |-> b, framing |-> f] :
          b \in {x \in KeyBodies : x.marked /\ x.prefix = <<>> /\ Len(x.rest) > 64},
          f \in {"pem70", "one-line", "no-footer"}}

\* Sealed messages by decoded length: shorter than a nonce, shorter than
\* nonce and public key together, just that long, with a ciphertext shorter
\* than a tag, with an empty box, with a box of 8 bytes.
SealedLens == {0, 3, 24, 40, 55} \cup {56 + k : k \in 0..MaxBody} \cup {72, 80}
sealedBytes(n) == <<>> \o [i \in 1..n |-> (7 * i + 3) % 256]
sealedMessage(n) == base64Encode(sealedBytes(n))

\* What the box does: opens on text, opens on bytes that are no text, fails.
BoxEnvs == {[opens |-> TRUE, text |-> TRUE], [opens |-> TRUE, text |-> FALSE],
            [opens |-> FALSE, text |-> TRUE]}

\* The client's configurations: a passphrase, the repository's test key or a
\* key without the marker as privateKey, with or without an errorHandler; an
\* errorHandler returns, or it throws (handlerThrows).
ClientPassphrases == {"myEncryptionKey"}
ClientPrivateKeys ==
  {privateKeyText(k) : k \in {x \in PrivateKeys : x.framing = "pem" /\ x.body.rest = Fill(64, 1)}}
Configs ==
  {c \in [apiKey : {"dummyApiKey"}, encryptionKey : ClientPassphrases,
          privateKey : ClientPrivateKeys, errorHandler : BOOLEAN,
          handlerThrows : BOOLEAN] : c.handlerThrows => c.errorHandler}

\* ------------------------------------------------------ the axios instance
\* { ...x, ...y }: the members of y set on x in turn; nothing is spread from
\* a y that is no object.
RECURSIVE assignAll(_, _)
assignAll(x, members) ==
  IF members = <<>> THEN x
  ELSE assignAll(spreadWith(x, members[1][1], members[1][2]), Tail(members))
spread(x, y) ==
  assignAll(Obj(IF TypeOf(x) = "object" THEN ContentOf(x) ELSE <<>>),
            IF TypeOf(y) = "object" THEN ContentOf(y) ELSE <<>>)

forcedConfig(apiKey) ==
  Obj(<< <<"baseURL", Text("https://api.cngn.co/v1/api")>>,
         <<"headers", Obj(<< <<"Authorization", Text("Bearer " \o apiKey)>>,
                             <<"Content-Type", Text("application/json")>> >>)>> >>)

\* (Mutant: the user's config and headers are spread over the forced ones.)
mergedConfigUserLast(apiKey, axiosConfig) ==
  spreadWith(spread(forcedConfig(apiKey), or(axiosConfig, Obj(<<>>))),
             "headers",
             spread(getMember(forcedConfig(apiKey), "headers"),
                    or(getMember(axiosConfig, "headers"), Obj(<<>>))))

\* { ...(config.axiosConfig || {}), ...forcedConfig,
\*   headers: { ...(config.axiosConfig?.headers || {}), ...forcedConfig.headers } }
mergedConfig(apiKey, axiosConfig) ==
  spreadWith(spread(or(axiosConfig, Obj(<<>>)), forcedConfig(apiKey)),
             "headers",
             spread(or(getMember(axiosConfig, "headers"), Obj(<<>>)),
                    getMember(forcedConfig(apiKey), "headers")))

\* axios.create(mergedConfig), with what it was made of.
createAxiosInstance(apiKey, axiosConfig) ==
  [created |-> TRUE, apiKey |-> apiKey, axiosConfig |-> axiosConfig,
   defaults |-> mergedConfig(apiKey, axiosConfig)]
NoInstance == [created |-> FALSE, apiKey |-> "", axiosConfig |-> Undef, defaults |-> Undef]

\* The axiosConfig of a user: none, or an object with any of baseURL, timeout
\* and headers, the headers any of a header of the user's own, the two forced
\* names with other values, and a forced name in lower case.
UserHeaderEntries ==
  << <<"X-Custom-Header", Text("customValue")>>,
     <<"Authorization", Text("Bearer another")>>,
     <<"Content-Type", Text("text/plain")>>,
     <<"content-type", Text("text/plain")>> >>
UserHeaders ==
  {Obj(SelectSeq(UserHeaderEntries, LAMBDA m : m[1] \in names)) :
     names \in SUBSET {"X-Custom-Header", "Authorization", "Content-Type", "content-type"}}
UserOptionEntries(headers) ==
  << <<"timeout", Num(1000)>>, <<"baseURL", Text("http://localhost:3000")>>,
     <<"headers", headers>> >>
AxiosConfigs ==
  {Undef} \cup
  {Obj(SelectSeq(UserOptionEntries(headers), LAMBDA m : m[1] \in names)) :
     headers \in UserHeaders, names \in SUBSET {"timeout", "baseURL", "headers"}}
ApiKeys == {"dummyApiKey", "anotherApiKey"}

\* What is handed to the post methods: a string, an object, undefined.
PostPayloads == {Str(str_A), Obj(<< <<key_amount, Num(100)>> >>), Undef}

\* What the server seals into a response: objects with a name of their own
\* and with the names status, message and data, an array, and the falsy
\* values 0, "" and null.
ResponsePayloads ==
  {Obj(<< <<key_balance, Num(100)>> >>),
   Obj(<< <<key_status, Num(404)>> >>),
   Obj(<< <<key_message, Str(str_A)>> >>),
   Obj(<< <<key_data, Arr(<<Num(1)>>)>> >>),
   Arr(<<Num(1), Num(2)>>),
   Num(0), Str(<<>>), Null}

\* What the box of a response does: it opens on the JSON text of a payload,
\* it opens on a text that is no JSON, it fails.
ClientBoxEnvs ==
  {[opens |-> TRUE, text |-> TRUE, holds |-> utf8Encode(stringifyText(x))] :
     x \in ResponsePayloads}
  \cup {[opens |-> TRUE, text |-> TRUE, holds |-> <<100, 100, 100, 100>>],
        [opens |-> FALSE, text |-> TRUE, holds |-> <<>>]}
NoEnv == [opens |-> FALSE, text |-> FALSE, holds |-> <<>>]

\* The body of a successful response, { status, message, data }: data is the
\* sealed message, nonce, box (tag and plaintext) and public key.
Statuses == {200, 201}
responseBody(status, env) ==
  Obj(<< <<key_status, Num(status)>>,
         <<key_message, Str(str_OK)>>,
         <<key_data,
           Str(sealedMessage(crypto_box_NONCEBYTES + crypto_box_MACBYTES + Len(env.holds)
                             + crypto_box_PUBLICKEYBYTES))>> >>)

\* How a request fails: the response of a 400 that axios rejects with,
\* { status, data: { status, message, error } }, or no response at all.
FailedResponses ==
  {Obj(<< <<key_status, Num(400)>>,
          <<key_data, Obj(<< <<key_status, Num(400)>>,
                             <<key_message, Str(str_A)>>,
                             <<key_error, Str(str_OK)>> >>)>> >>),
   Undef}
AxiosError(response) ==
  Caught([name |-> "AxiosError",
          message |-> IF IsDefined(response) THEN "Request failed with status code 400"
                      ELSE "Network Error"],
         response)

\* The callers of the engines when calls are in flight together.
TaskIds == {1, 2}

\* --------------------------------------------------------------------- state
\* No operator names a parameter or a bound variable after a state variable.
VARIABLES
  cryptoUtils, \* engine id -> the closure createCryptoUtils returned
  configured,  \* engine id -> the encryptionModifier of the config it was built for
  enc,         \* the last encryptData call: engine, data, iv drawn, envelope,
               \* and the draw and iv field of the call before it when that
               \* call encrypted the same data
  wire,        \* the envelope on its way to decryptData, and what altered it
  dec,         \* the last decryptData call: engine, envelope, outcome
  edUtils,     \* the closure createEd25519CryptoUtils returned
  edCall,      \* the last decryptWithPrivateKey call: inputs and what it did
  sodium,      \* the library: has sodium.ready resolved, and how many awaits
               \* of it have completed
  config,      \* the config the client was created with
  req,         \* the endpoint call under way, or the last one settled
  calls,       \* task -> the engine call it has made and what came of it, and
               \* the bindings (parameters, const and let) of the calls in flight
  built,       \* the arguments the engines shared by the tasks were built with
  formatted,   \* the last formatApiError or formatApiResponse call made on its own
  axiosInstance \* what axios.create was handed when the client was created

vars == <<cryptoUtils, configured, enc, wire, dec, edUtils, edCall,
          sodium, config, req, calls, built, formatted, axiosInstance>>

NoEarlier == [called |-> FALSE, iv |-> <<>>, envelopeIv |-> <<>>]
NoEnc == [n |-> 0, engine |-> 0, data |-> <<>>, iv |-> <<>>, out |-> NoEnvelope,
          earlier |-> NoEarlier]
NoWire == [live |-> FALSE, envelope |-> NoEnvelope, tamper |-> "none"]
NoDec == [done |-> FALSE, engine |-> 0, input |-> NoEnvelope, out |-> Threw(NoError)]
NoCall == [done |-> FALSE]
NoConfig == [apiKey |-> "", encryptionKey |-> "", privateKey |-> <<>>, errorHandler |-> FALSE,
             handlerThrows |-> FALSE]
NoDid == [parsed |-> Threw(NoError), slices |-> NoSlices, box |-> NotCalled,
          after |-> <<>>, steps |-> <<>>, out |-> Threw(NoError)]
NoEd == [built |-> FALSE, called |-> FALSE, readyWhenCalled |-> FALSE, key |-> <<>>,
         did |-> NoDid]
NoOut == [kind |-> "none", statusCode |-> Undef, message |-> Undef, path |-> "",
          data |-> Undef]
NoRequest == [phase |-> "idle", method |-> "", data |-> Undef, iv |-> <<>>,
              sent |-> NoSent, response |-> Undef, env |-> NoEnv, ed |-> NoEd,
              raw |-> Threw(NoError), cause |-> NoCause, handled |-> 0,
              handledWith |-> NoCause, out |-> NoOut]
IdleCall == [phase |-> "idle", op |-> "", engine |-> 0, text |-> <<>>,
             encrypted |-> NoEnvelope, privateKey |-> <<>>, encryptedData |-> <<>>,
             env |-> NoEnv, iv |-> <<>>, among |-> FALSE, out |-> Threw(NoError)]
NoFrame == [text |-> <<>>, encrypted |-> NoEnvelope, privateKey |-> <<>>,
            encryptedData |-> <<>>, encryptionKey |-> "", iv |-> <<>>,
            result |-> Threw(NoError)]
NoCalls == [task |-> [t \in TaskIds |-> IdleCall], frame |-> [t \in TaskIds |-> NoFrame]]
NoBuilt == [encryptionKey |-> [e \in EngineIds |-> ""], encryptionModifier |-> Undefined]
NoFormat == [fn |-> "", error |-> NoCause, apiResponse |-> Undef, path |-> "", out |-> NoOut]

\* ------------------------------------------------------- the symmetric engine
AesInit ==
  /\ \E k \in [EngineIds -> Passphrases] :
       cryptoUtils = [e \in EngineIds |-> createCryptoUtils(k[e])]
  /\ configured \in [EngineIds -> SymModifiers]
  /\ enc = NoEnc
  /\ wire = NoWire
  /\ dec = NoDec
  /\ edUtils = createEd25519CryptoUtils(Undefined)
  /\ edCall = NoCall
  /\ sodium = [ready |-> TRUE, awaits |-> 1]
  /\ config = NoConfig
  /\ req = NoRequest
  /\ calls = NoCalls
  /\ built = NoBuilt
  /\ formatted = NoFormat
  /\ axiosInstance = NoInstance

\* encryptData, tamper and decryptData over the inputs above, each value
\* computed once.
Engines == {createCryptoUtils(k) : k \in Passphrases}
encryptMemo ==
  [u \in Engines, d \in Plaintexts, iv \in randomBytes(BlockSize) |-> encryptData(u, d, iv)]
Sealed == {encryptMemo[x] : x \in DOMAIN encryptMemo}
tamperMemo == [kind \in Tampers, e \in Sealed |-> tamper(kind, e)]
Envelopes == Sealed \cup {tamperMemo[x] : x \in DOMAIN tamperMemo}
decryptMemo == [u \in Engines, e \in Envelopes |-> decryptData(u, e)]

\* One encryptData(data) call on engine e; iv is what randomBytes(16) drew.
EncryptData(e, data, iv) ==
  LET out == encryptMemo[cryptoUtils[e], data, iv]
  IN  /\ enc' = [n |-> 1, engine |-> e, data |-> data, iv |-> iv, out |-> out,
                 earlier |-> IF enc.n = 1 /\ enc.data = data
                               THEN [called |-> TRUE, iv |-> enc.iv,
                                     envelopeIv |-> enc.out.iv]
                               ELSE NoEarlier]
      /\ wire' = [live |-> TRUE, envelope |-> out, tamper |-> "none"]
      /\ dec' = NoDec
      /\ UNCHANGED <<cryptoUtils, configured, edUtils, edCall,
                   sodium, config, req, calls, built, formatted, axiosInstance>>

\* The envelope is altered in transit.
Tamper(kind) ==
  /\ wire.live
  /\ wire.tamper = "none"
  /\ ~dec.done
  /\ wire' = [wire EXCEPT !.envelope = tamperMemo[kind, wire.envelope], !.tamper = kind]
  /\ UNCHANGED <<cryptoUtils, configured, enc, dec, edUtils, edCall,
                   sodium, config, req, calls, built, formatted, axiosInstance>>

\* One decryptData(envelope) call on engine e.
DecryptData(e) ==
  /\ wire.live
  /\ dec' = [done |-> TRUE, engine |-> e, input |-> wire.envelope,
             out |-> decryptMemo[cryptoUtils[e], wire.envelope]]
  /\ UNCHANGED <<cryptoUtils, configured, enc, wire, edUtils, edCall,
                   sodium, config, req, calls, built, formatted, axiosInstance>>

AesNext ==
  \/ \E e \in EngineIds, data \in Plaintexts, iv \in randomBytes(BlockSize) :
       EncryptData(e, data, iv)
  \/ \E kind \in Tampers : Tamper(kind)
  \/ \E e \in EngineIds : DecryptData(e)

AesSpec == AesInit /\ [][AesNext]_vars

\* ------------------------------------------------- claims, symmetric engine
\* The envelope decryptData was given is the one the last encryptData returned.
Unaltered == dec.input = enc.out
SamePassphrase ==
  cryptoUtils[dec.engine].encryptionKey = cryptoUtils[enc.engine].encryptionKey

\* C1 as stated: decryptData(encryptData(S)) on one engine returns exactly S,
\* for every passphrase, every string S and every iv drawn.
C1_RoundTripEveryString ==
  (dec.done /\ Unaltered /\ dec.engine = enc.engine) => dec.out = Returned(enc.data)

\* C1 amended: decryptData(encryptData(S)) on one engine returns exactly S,
\* for every passphrase, every iv drawn and every string S without unpaired
\* surrogates (the empty string and multi-byte characters included).
C1_RoundTrip ==
  (dec.done /\ Unaltered /\ dec.engine = enc.engine /\ WellFormed(enc.data))
    => dec.out = Returned(enc.data)

\* A surrogate pair behind PrefixLen letters, under a non-zero iv, came back.
C1_Witness ==
  /\ dec.done /\ Unaltered /\ dec.engine = enc.engine
  /\ Len(enc.data) = PrefixLen + 2
  /\ IsHigh(enc.data[PrefixLen + 1])
  /\ enc.iv # Fill(BlockSize, 0)
  /\ dec.out = Returned(enc.data)

\* C2 as stated: an engine configured with a passphrase and a modifier M
\* decrypts the envelope an engine with the same passphrase and the same M
\* made for S back to exactly S, the iv decrypt uses being the iv encrypt used.
C2_ModifierRoundTripEveryString ==
  (/\ dec.done /\ Unaltered /\ SamePassphrase
   /\ configured[enc.engine] # Undefined
   /\ configured[dec.engine] = configured[enc.engine])
    => /\ dec.out = Returned(enc.data)
       /\ base64Decode(dec.input.iv) = enc.iv

\* C2 amended: the same, for every S without unpaired surrogates.
C2_ModifierRoundTrip ==
  (/\ dec.done /\ Unaltered /\ SamePassphrase
   /\ configured[enc.engine] # Undefined
   /\ configured[dec.engine] = configured[enc.engine]
   /\ WellFormed(enc.data))
    => /\ dec.out = Returned(enc.data)
       /\ base64Decode(dec.input.iv) = enc.iv

\* Two engines built for the same passphrase and modifier: one encrypted a
\* text, the other gave it back.
C2_Witness ==
  /\ dec.done /\ Unaltered /\ SamePassphrase
  /\ dec.engine # enc.engine
  /\ configured[enc.engine] = "m1" /\ configured[dec.engine] = "m1"
  /\ Len(enc.data) > PrefixLen
  /\ dec.out = Returned(enc.data)

\* What an envelope holds for an engine: the lengths of its decoded iv and
\* content and, when the iv is 16 bytes and the content whole blocks, whether
\* the last block as it comes out of the cipher ends in malformed padding.
lastBlockOf(u, e) ==
  LET ct == base64Decode(e.content)
      n == Len(ct)
      before == IF n = BlockSize THEN base64Decode(e.iv)
                ELSE SubSeq(ct, n - 2 * BlockSize + 1, n - BlockSize)
  IN  XorBytes(aesDecryptBlock(sha256(u.encryptionKey), SubSeq(ct, n - BlockSize + 1, n)),
               before)
malformedPadding(u, e) ==
  /\ Len(base64Decode(e.iv)) = BlockSize
  /\ Len(base64Decode(e.content)) > 0
  /\ Len(base64Decode(e.content)) % BlockSize = 0
  /\ LET n == lastBlockOf(u, e)[BlockSize]
     IN  \/ n < 1
         \/ n > BlockSize
         \/ \E i \in (BlockSize - n + 1)..BlockSize : lastBlockOf(u, e)[i] # n
envelopeFacts ==
  [u \in Engines, e \in Envelopes |->
     [ivLen |-> Len(base64Decode(e.iv)),
      contentLen |-> Len(base64Decode(e.content)),
      malformed |-> malformedPadding(u, e)]]
Given == envelopeFacts[cryptoUtils[dec.engine], dec.input]

\* C8: decryptData raises an error and returns no string whenever the decoded
\* content has a length that is no multiple of 16, whenever the padding found
\* after decryption is malformed, and whenever the decoded iv is not 16 bytes.
C8_DecryptErrors ==
  (dec.done /\ (\/ Given.contentLen % BlockSize # 0
                \/ Given.ivLen # BlockSize
                \/ Given.malformed))
    => dec.out.kind = "threw" /\ dec.out.value = <<>>

\* An envelope with a sound iv and whole blocks whose padding is malformed
\* was refused, under the passphrase that made it.
C8_Witness ==
  /\ dec.done /\ Given.malformed /\ SamePassphrase
  /\ dec.out = Threw(Error("bad decrypt"))
\* A content that is no whole number of blocks, and a short iv, were refused.
C8_WitnessLength ==
  dec.done /\ Given.contentLen % BlockSize # 0 /\ dec.out.kind = "threw"
C8_WitnessIv ==
  dec.done /\ Given.ivLen # BlockSize /\ dec.out.kind = "threw"

\* C9 as stated: for every envelope derived from encryptData(S) by altering
\* the iv or the content, or decrypted under another passphrase, decryptData
\* returns exactly S or fails; it never returns a string different from S.
C9_NeverWrongResult ==
  (dec.done /\ (~Unaltered \/ ~SamePassphrase))
    => dec.out.kind = "threw" \/ dec.out = Returned(enc.data)

\* C9 amended: decryptData returns exactly S for the unaltered envelope of
\* encryptData(S) under the same passphrase (S without unpaired surrogates);
\* it fails only on an altered envelope or under another passphrase, and then
\* returns no string; an altered envelope that still decrypts may give a
\* string different from S.
C9_WrongOnlyIfAltered ==
  dec.done =>
    /\ (Unaltered /\ SamePassphrase /\ WellFormed(enc.data))
         => dec.out = Returned(enc.data)
    /\ dec.out.kind = "threw"
         => dec.out.value = <<>> /\ (~Unaltered \/ ~SamePassphrase)

\* The unaltered envelope was refused under another passphrase.
C9_Witness ==
  /\ dec.done /\ Unaltered /\ ~SamePassphrase
  /\ Len(enc.data) > 0
  /\ dec.out.kind = "threw"

\* C10: each encryptData call uses the iv it drew itself, not that of the
\* call before; two calls on the same plaintext whose draws differ return
\* envelopes that differ in their iv fields.
C10_FreshIv ==
  enc.n = 1 =>
    /\ base64Decode(enc.out.iv) = enc.iv
    /\ (enc.earlier.called /\ enc.earlier.iv # enc.iv)
         => enc.out.iv # enc.earlier.envelopeIv

\* Two calls in a row on the same plaintext drew different ivs.
C10_Witness ==
  /\ enc.n = 1
  /\ enc.earlier.called
  /\ enc.earlier.iv # enc.iv
  /\ Len(enc.data) > 0
  /\ enc.out.iv # enc.earlier.envelopeIv

\* What the envelope of the last encryptData call holds: the decoded content
\* and iv, and the UTF-8 bytes of the plaintext it was made from.
ContentBytes == base64Decode(enc.out.content)
IvBytes == base64Decode(enc.out.iv)
PlainBytes == utf8Encode(enc.data)

\* C11: encryptData returns an envelope for every string (the empty one and
\* one with an unpaired surrogate included) and pads to a block boundary: for
\* a plaintext of n UTF-8 bytes the decoded content is 16 * (n div 16 + 1)
\* bytes long; the empty string gives one block, 16 bytes of padding under
\* the cipher.
C11_PaddedToBlock ==
  enc.n = 1 =>
    /\ Len(ContentBytes) = 16 * ((Len(PlainBytes) \div 16) + 1)
    /\ enc.data = <<>> =>
         /\ Len(ContentBytes) = 16
         /\ cbcDecrypt(sha256(cryptoUtils[enc.engine].encryptionKey), enc.iv, ContentBytes)
              = <<16, 16, 16, 16, 16, 16, 16, 16, 16, 16, 16, 16, 16, 16, 16, 16>>

\* A plaintext of exactly 16 UTF-8 bytes (PrefixLen letters and one more)
\* was encrypted to two blocks.
C11_Witness ==
  /\ enc.n = 1
  /\ Len(PlainBytes) = PrefixLen + 1
  /\ Len(PlainBytes) % 16 = 0
  /\ Len(ContentBytes) = Len(PlainBytes) + 16
\* The empty string was encrypted to one block.
C11_WitnessEmpty ==
  enc.n = 1 /\ enc.data = <<>> /\ Len(ContentBytes) = 16

\* C12 as stated: the content field of an envelope encryptData returned is
\* empty if and only if the plaintext was the empty string.
C12_EmptyIffEmpty ==
  enc.n = 1 => (enc.out.content = <<>> <=> enc.data = <<>>)

\* C12 amended: the content field is never empty; for the empty plaintext it
\* is the 24 characters of one encoded block, and only a plaintext of fewer
\* than 16 UTF-8 bytes gives a content that short.
C12_ContentNeverEmpty ==
  enc.n = 1 =>
    /\ enc.out.content # <<>>
    /\ enc.data = <<>> => Len(enc.out.content) = 24
    /\ Len(enc.out.content) = 24 <=> Len(PlainBytes) < 16

\* The empty string was encrypted under a non-zero iv: the content is there.
C12_Witness ==
  /\ enc.n = 1
  /\ enc.data = <<>>
  /\ enc.iv # Fill(BlockSize, 0)
  /\ Len(enc.out.content) = 24

\* Valid base64: characters of the alphabet in groups of four, padding only
\* at the very end, and the text is what encoding its decoding gives.
ValidBase64(t) ==
  /\ Len(t) % 4 = 0
  /\ \A i \in 1..Len(t) : t[i] <= 64
  /\ \A i \in 1..Len(t) : t[i] = 64 => (i >= Len(t) - 1 /\ t[Len(t)] = 64)
  /\ base64Encode(base64Decode(t)) = t

\* C13: every envelope encryptData returns, for every plaintext and whatever
\* call came before, has a non-empty iv that is valid base64 and decodes to
\* exactly 16 bytes, and a non-empty content that is valid base64.
C13_EnvelopeBase64 ==
  enc.n = 1 =>
    /\ enc.out.iv # <<>>
    /\ ValidBase64(enc.out.iv)
    /\ Len(IvBytes) = 16
    /\ enc.out.content # <<>>
    /\ ValidBase64(enc.out.content)

\* After an earlier call, a plaintext of more than one block was encrypted:
\* update() gave 16 bytes, no multiple of 3, final() the rest.
C13_Witness ==
  /\ enc.n = 1
  /\ enc.earlier.called
  /\ Len(PlainBytes) > 16
  /\ Len(enc.out.content) = 44
  /\ ValidBase64(enc.out.content)

\* C14 as stated: the key depends on the passphrase only, 32 bytes, the same
\* in every call; an envelope one engine instance made is decrypted to the
\* original plaintext by any other instance built with the same passphrase.
C14_AnyInstanceEveryString ==
  (dec.done /\ Unaltered /\ SamePassphrase /\ dec.engine # enc.engine)
    => /\ deriveKey(cryptoUtils[dec.engine]) = deriveKey(cryptoUtils[enc.engine])
       /\ Len(deriveKey(cryptoUtils[dec.engine])) = 32
       /\ dec.out = Returned(enc.data)

\* C14 amended: the same, the plaintext coming back for every string
\* without unpaired surrogates.
C14_AnyInstance ==
  (dec.done /\ Unaltered /\ SamePassphrase /\ dec.engine # enc.engine)
    => /\ deriveKey(cryptoUtils[dec.engine]) = deriveKey(cryptoUtils[enc.engine])
       /\ Len(deriveKey(cryptoUtils[dec.engine])) = 32
       /\ WellFormed(enc.data) => dec.out = Returned(enc.data)

\* An engine encrypted the same text twice; the other engine, built with the
\* same passphrase, gave the text back from the second envelope.
C14_Witness ==
  /\ dec.done /\ Unaltered /\ SamePassphrase
  /\ dec.engine # enc.engine
  /\ enc.earlier.called
  /\ enc.iv # Fill(BlockSize, 0)
  /\ Len(enc.data) = PrefixLen + 1
  /\ dec.out = Returned(enc.data)

\* ------------------------------------------------------ the asymmetric engine
EdInit ==
  /\ cryptoUtils = [e \in EngineIds |-> createCryptoUtils("myEncryptionKey")]
  /\ configured = [e \in EngineIds |-> Undefined]
  /\ enc = NoEnc
  /\ wire = NoWire
  /\ dec = NoDec
  /\ edUtils \in {createEd25519CryptoUtils(m) : m \in EdModifiers}
  /\ edCall = NoCall
  /\ sodium = [ready |-> TRUE, awaits |-> 1]
  /\ config = NoConfig
  /\ req = NoRequest
  /\ calls = NoCalls
  /\ built = NoBuilt
  /\ formatted = NoFormat
  /\ axiosInstance = NoInstance

EdEngines == {createEd25519CryptoUtils(m) : m \in EdModifiers}
\* The calls over the inputs above, each computed once.
edMemo ==
  [ed \in EdEngines, k \in PrivateKeys, n \in SealedLens, env \in BoxEnvs |->
     [done |-> TRUE, key |-> k, privateKey |-> privateKeyText(k),
      len |-> n, encryptedData |-> sealedMessage(n), env |-> env,
      did |-> decryptWithPrivateKey(ed, privateKeyText(k), sealedMessage(n), env)]]

\* One decryptWithPrivateKey(privateKey, encryptedData) call, settled.
DecryptWithPrivateKey(k, n, env) ==
  /\ edUtils.ready
  /\ edCall' = edMemo[edUtils, k, n, env]
  /\ UNCHANGED <<cryptoUtils, configured, enc, wire, dec, edUtils,
                   sodium, config, req, calls, built, formatted, axiosInstance>>

EdNext ==
  \E k \in PrivateKeys, n \in SealedLens, env \in BoxEnvs : DecryptWithPrivateKey(k, n, env)

EdSpec == EdInit /\ [][EdNext]_vars

\* ------------------------------------------------ claims, asymmetric engine
\* The bytes between the first and the last line of the key, decoded, and
\* whether bytes hold the marker 00 00 00 40.
DecodedBody == base64Decode(join(sliceLines(edCall.privateKey)))
HoldsMarker(b) == \E i \in 1..(Len(b) - 3) : SubSeq(b, i, i + 3) = <<0, 0, 0, 64>>

\* What the box-opening step, called as it was, threw: the exception of
\* crypto_box_open_easy, else that of to_string, else nothing.
BoxCause ==
  LET b == edCall.did.box
      opened == crypto_box_open_easy(b.ciphertext, b.nonce, b.publicKey, b.privateKey,
                                     edCall.env)
  IN  IF opened.kind = "threw" THEN opened.error ELSE to_string(opened.value).error

\* C3: whenever the box-opening step, or the conversion of its result to
\* text, throws inside decryptWithPrivateKey, the call rejects with an Error
\* whose message is 'Failed to decrypt with the provided...' followed by the
\* text of the cause; it does not resolve and the cause does not escape as is.
C3_BoxFailureWrapped ==
  (edCall.done /\ edCall.did.box.called /\ BoxCause # NoError)
    => /\ edCall.did.out.kind = "threw"
       /\ edCall.did.out.value = <<>>
       /\ edCall.did.out.error # BoxCause
       /\ edCall.did.out.error.name = "Error"
       /\ edCall.did.out.error.message =
            "Failed to decrypt with the provided" \o " Ed25519 private key: "
              \o BoxCause.name \o ": " \o BoxCause.message

\* The box opened on bytes that are no text, and the call was rejected.
C3_Witness ==
  /\ edCall.done /\ edCall.did.box.called
  /\ edCall.env.opens
  /\ BoxCause = TypeError("The encoded data was not valid.")
  /\ edCall.did.out.kind = "threw"
\* The box failed to authenticate, and the call was rejected.
C3_WitnessAuth ==
  /\ edCall.done /\ edCall.did.box.called
  /\ BoxCause = Error("incorrect key pair for the given ciphertext")
  /\ edCall.did.out.kind = "threw"

\* C4: for every key whose body decodes to bytes that nowhere hold
\* 00 00 00 40, key parsing fails with 'Unable to find Ed25519 key data' and
\* decryptWithPrivateKey rejects with that error.
C4_NoMarkerRejected ==
  (edCall.done /\ ~HoldsMarker(DecodedBody))
    => /\ edCall.did.parsed = Threw(Error("Unable to find Ed25519 key data"))
       /\ edCall.did.out = edCall.did.parsed
       /\ ~edCall.did.box.called

\* A key of three lines with more than 64 body bytes and no marker was
\* refused.
C4_Witness ==
  /\ edCall.done
  /\ edCall.key.framing = "pem"
  /\ Len(DecodedBody) > 64
  /\ ~HoldsMarker(DecodedBody)
  /\ edCall.did.out = Threw(Error("Unable to find Ed25519 key data"))

\* The key is a header line, body lines and a footer line, and its body
\* decodes to a prefix without the marker, the marker, and 64 bytes or more.
WellFormedKey ==
  /\ edCall.key.framing \in {"pem", "pem70"}
  /\ edCall.key.body.marked
  /\ ~HoldsMarker(edCall.key.body.prefix)
  /\ Len(edCall.key.body.rest) >= 64
  /\ DecodedBody = edCall.key.body.prefix \o <<0, 0, 0, 64>> \o edCall.key.body.rest

\* C5: for every such key, parsing raises no error and returns exactly the
\* 64 bytes that follow the first occurrence of the marker.
C5_KeyBehindFirstMarker ==
  (edCall.done /\ WellFormedKey)
    => edCall.did.parsed = Returned(SubSeq(edCall.key.body.rest, 1, 64))

\* A key whose 64 key bytes hold the marker again was parsed: what came
\* back is what follows the first marker.
C5_Witness ==
  /\ edCall.done /\ WellFormedKey
  /\ HoldsMarker(edCall.key.body.rest)
  /\ edCall.did.parsed.kind = "returned"
  /\ Len(edCall.did.parsed.value) = 64
  /\ HoldsMarker(edCall.did.parsed.value)
\* The key of the repository's test, zeros in front of the marker, and a key
\* on lines of 70 characters with bytes behind the key, were parsed.
C5_WitnessZeros ==
  /\ edCall.done /\ WellFormedKey
  /\ Len(edCall.key.body.prefix) = PrefixZeros
  /\ edCall.did.parsed = Returned(Fill(64, 1))
C5_WitnessLines ==
  /\ edCall.done /\ WellFormedKey
  /\ edCall.key.framing = "pem70"
  /\ Len(edCall.privateKey) > 3
  /\ Len(edCall.key.body.rest) > 64
  /\ edCall.did.parsed.kind = "returned"

\* The sealed message decoded, and its three parts by position.
DecodedMessage == base64Decode(edCall.encryptedData)
SlicedAsClaimed ==
  LET b == DecodedMessage
      n == Len(b)
      sl == edCall.did.slices
  IN  /\ sl.nonce = SubSeq(b, 1, 24)
      /\ sl.ciphertext = SubSeq(b, 25, n - 32)
      /\ sl.ephemeralPublicKey = SubSeq(b, n - 31, n)
      /\ Len(sl.nonce) + Len(sl.ciphertext) + Len(sl.ephemeralPublicKey) = n
      /\ sl.nonce \o sl.ciphertext \o sl.ephemeralPublicKey = b

\* C6 as stated: a sealed message of decoded length len >= 56 is split into
\* nonce = bytes[0:24], ciphertext = bytes[24:len-32] and publicKey =
\* bytes[len-32:len], disjoint and together the whole buffer, and exactly
\* these slices are passed to the box-opening step.
C6_SlicesPassedAsTaken ==
  (edCall.done /\ edCall.did.box.called /\ Len(DecodedMessage) >= 56)
    => /\ SlicedAsClaimed
       /\ edCall.did.box.nonce = edCall.did.slices.nonce
       /\ edCall.did.box.ciphertext = edCall.did.slices.ciphertext
       /\ edCall.did.box.publicKey = edCall.did.slices.ephemeralPublicKey

\* C6 amended: the split is as stated; the ciphertext and publicKey slices
\* are passed to the box-opening step as taken, and so is the nonce slice
\* when no modifier (or the empty one) is configured; with a modifier the
\* nonce passed is a transform of the nonce slice, of the same length.
C6_SlicesPassed ==
  (edCall.done /\ edCall.did.box.called /\ Len(DecodedMessage) >= 56)
    => /\ SlicedAsClaimed
       /\ edCall.did.box.ciphertext = edCall.did.slices.ciphertext
       /\ edCall.did.box.publicKey = edCall.did.slices.ephemeralPublicKey
       /\ Len(edCall.did.box.nonce) = Len(edCall.did.slices.nonce)
       /\ (edUtils.encryptionModifier \in {Undefined, ""})
            => edCall.did.box.nonce = edCall.did.slices.nonce

\* A message of 80 bytes was split for an engine with a modifier: 24 bytes
\* of ciphertext passed as taken, the nonce passed changed.
C6_Witness ==
  /\ edCall.done /\ edCall.did.box.called
  /\ Len(DecodedMessage) = 80
  /\ edUtils.encryptionModifier = "mod"
  /\ Len(edCall.did.box.ciphertext) = 24
  /\ edCall.did.box.ciphertext = edCall.did.slices.ciphertext
  /\ edCall.did.box.nonce # edCall.did.slices.nonce

\* C15: when no modifier is configured (undefined, or the empty string) the
\* nonce passed to the box-opening step is byte for byte the first 24 bytes
\* of the decoded sealed message (all of it when it is shorter), and with or
\* without a modifier the decoded buffer holds after the call what it held
\* when it was decoded.
C15_NonceAsSentBufferKept ==
  (edCall.done /\ edCall.did.box.called)
    => /\ edCall.did.after = DecodedMessage
       /\ edCall.did.slices.buffer = DecodedMessage
       /\ ~truthy(edUtils.encryptionModifier)
            => edCall.did.box.nonce
                 = SubSeq(DecodedMessage, 1, Min(24, Len(DecodedMessage)))

\* With a modifier the nonce passed on differs from the bytes sent, and the
\* buffer still holds the bytes sent.
C15_Witness ==
  /\ edCall.done /\ edCall.did.box.called
  /\ edUtils.encryptionModifier = "mod"
  /\ Len(DecodedMessage) > 56
  /\ edCall.did.box.nonce # SubSeq(DecodedMessage, 1, 24)
  /\ edCall.did.after = DecodedMessage
\* Without a modifier the box opened on the nonce as sent.
C15_WitnessUnmodified ==
  /\ edCall.done /\ edCall.did.box.called
  /\ edUtils.encryptionModifier = Undefined
  /\ Len(DecodedMessage) > 56
  /\ edCall.did.box.nonce = SubSeq(DecodedMessage, 1, 24)
  /\ edCall.did.out.kind = "returned"

\* C7: with a modifier configured, the nonce passed to the box-opening step
\* is the 24-byte wire nonce with only its first 16 bytes XORed with the
\* bytes of the modifier's SHA-256 digest; bytes 16..23 pass unchanged.
C7_OnlyFirst16Xored ==
  (/\ edCall.done /\ edCall.did.box.called
   /\ edUtils.encryptionModifier \notin {Undefined, ""}
   /\ Len(edCall.did.slices.nonce) = 24)
    => edCall.did.box.nonce =
         [i \in 1..24 |->
            IF i <= 16
              THEN Xor8(edCall.did.slices.nonce[i], sha256(edUtils.encryptionModifier)[i])
              ELSE edCall.did.slices.nonce[i]]

\* ------------------------------------------------------------------ the client
ClientInit ==
  /\ config \in Configs
  /\ cryptoUtils = [e \in EngineIds |-> createCryptoUtils(config.encryptionKey)]
  /\ configured = [e \in EngineIds |-> Undefined]
  /\ enc = NoEnc
  /\ wire = NoWire
  /\ dec = NoDec
  /\ edUtils = [encryptionModifier |-> Undefined, ready |-> FALSE]
  /\ edCall = NoCall
  /\ sodium = [ready |-> FALSE, awaits |-> 0]
  /\ req = NoRequest
  /\ calls = NoCalls
  /\ built = NoBuilt
  /\ formatted = NoFormat
  /\ axiosInstance = createAxiosInstance(config.apiKey, Undef)

\* The requests post makes and what get and post make of a response, over
\* the inputs above, each computed once.
postMemo ==
  [u \in {createCryptoUtils(k) : k \in ClientPassphrases}, method \in PostMethods,
   data \in PostPayloads, iv \in randomBytes(BlockSize) |->
     postRequest(u, endpointOf(method), data, iv)]
DecryptionKeys == ClientPrivateKeys \cup {linesOfString(k) : k \in ClientPassphrases}
openMemo ==
  [key \in DecryptionKeys, status \in Statuses, env \in ClientBoxEnvs |->
     openResponse(createEd25519CryptoUtils(Undefined), key, responseBody(status, env), env)]

\* What a call rejects with when its errorHandler throws: what was thrown,
\* which formatApiError has not seen.
HandlerThrew ==
  [kind |-> "rejected", statusCode |-> Undef, message |-> Text("thrown by errorHandler"),
   path |-> "", data |-> Undef]

\* (Mutant: the catch block goes to formatApiError at once, the errorHandler
\* is not called.)
RejectedUnhandled(r, cause) ==
  [r EXCEPT !.phase = "rejected",
            !.cause = cause,
            !.out = formatApiError(cause, endpointOf(r.method))]

\* The catch block of get and post: the errorHandler, when there is one, is
\* called with the error, and the call rejects with formatApiError(error,
\* { path: endpoint }), unless the errorHandler threw: then the throw
\* statement is not reached and the call rejects with what the handler threw.
\* The endpoint method lets the rejection through.
Rejected(r, cause) ==
  [r EXCEPT !.phase = "rejected",
            !.cause = cause,
            !.handled = IF config.errorHandler THEN r.handled + 1 ELSE r.handled,
            !.handledWith = IF config.errorHandler THEN cause ELSE r.handledWith,
            !.out = IF config.errorHandler /\ config.handlerThrows
                      THEN HandlerThrew
                      ELSE formatApiError(cause, endpointOf(r.method))]

Settled == req.phase \in {"idle", "resolved", "rejected"}

\* An endpoint method that calls get: the request is issued.
CallGet(method) ==
  /\ Settled
  /\ req' = [NoRequest EXCEPT !.phase = "requested", !.method = method,
                              !.sent = getRequest(endpointOf(method)).value]
  /\ UNCHANGED <<cryptoUtils, configured, enc, wire, dec, edUtils, edCall,
                 sodium, config, calls, built, formatted, axiosInstance>>

\* An endpoint method that calls post with a payload; iv is what
\* randomBytes(16) drew. The envelope is posted, or encryption throws and
\* the call rejects without a request.
posted(started, made) ==
  IF made.kind = "threw"
    THEN Rejected(started, Caught(made.error, Undef))
    ELSE [started EXCEPT !.phase = "requested", !.sent = made.value]
CallPost(method, data, iv) ==
  /\ Settled
  /\ req' = posted([NoRequest EXCEPT !.method = method, !.data = data, !.iv = iv],
                   postMemo[cryptoUtils[1], method, data, iv])
  /\ UNCHANGED <<cryptoUtils, configured, enc, wire, dec, edUtils, edCall,
                 sodium, config, calls, built, formatted, axiosInstance>>

\* The request fails: axios rejects, the catch block runs.
RequestFails(response) ==
  /\ req.phase = "requested"
  /\ req' = Rejected(req, AxiosError(response))
  /\ UNCHANGED <<cryptoUtils, configured, enc, wire, dec, edUtils, edCall,
                 sodium, config, calls, built, formatted, axiosInstance>>

\* A response { status, message, data } arrives: get or post goes on, calls
\* createEd25519CryptoUtils() and waits at its `await sodium.ready`.
ResponseArrives(status, env) ==
  /\ req.phase = "requested"
  /\ req' = [req EXCEPT !.phase = "awaitingReady",
                        !.response = responseBody(status, env),
                        !.env = env]
  /\ UNCHANGED <<cryptoUtils, configured, enc, wire, dec, edUtils, edCall,
                 sodium, config, calls, built, formatted, axiosInstance>>

\* The library has loaded: sodium.ready resolves.
SodiumReady ==
  /\ ~sodium.ready
  /\ sodium' = [sodium EXCEPT !.ready = TRUE]
  /\ UNCHANGED <<cryptoUtils, configured, enc, wire, dec, edUtils, edCall,
                 config, req, calls, built, formatted, axiosInstance>>

\* The await completes: the utils are returned, decryptWithPrivateKey is
\* called with the key and response.data.data, the text is parsed, and the
\* endpoint method formats what get or post returned; or the catch block runs.
resumed(r, key, opened, ready) ==
  LET called == [r EXCEPT !.ed = [built |-> TRUE, called |-> TRUE,
                                  readyWhenCalled |-> ready,
                                  key |-> key, did |-> opened.did],
                          !.raw = opened.out]
  IN  IF opened.out.kind = "threw"
        THEN Rejected(called, Caught(opened.out.error, Undef))
        ELSE [called EXCEPT
                !.phase = "resolved",
                !.out = formatApiResponse(opened.out.value, pathOf(r.method))]
opening(r, key) == openMemo[key, ContentOf(getMember(r.response, key_status)), r.env]
Resume ==
  /\ req.phase = "awaitingReady"
  /\ readyAwaited(sodium)
  /\ edUtils' = createEd25519CryptoUtils(Undefined)
  /\ sodium' = [sodium EXCEPT !.awaits = Min(@ + 1, MaxAwaits)]
  /\ req' = resumed(req, decryptionKey(config, req.sent.verb),
                    opening(req, decryptionKey(config, req.sent.verb)), sodium.ready)
  /\ UNCHANGED <<cryptoUtils, configured, enc, wire, dec, edCall, config, calls, built, formatted, axiosInstance>>

ClientNext ==
  \/ \E method \in GetMethods : CallGet(method)
  \/ \E method \in PostMethods, data \in PostPayloads, iv \in randomBytes(BlockSize) :
       CallPost(method, data, iv)
  \/ \E response \in FailedResponses : RequestFails(response)
  \/ \E status \in Statuses, env \in ClientBoxEnvs : ResponseArrives(status, env)
  \/ SodiumReady
  \/ Resume

ClientSpec == ClientInit /\ [][ClientNext]_vars

\* The clients without errorHandler: what the catch block calls has no part
\* in whether a call goes on.
ClientLiveInit == ClientInit /\ ~config.errorHandler
\* The library finishes loading, and a function whose await has completed
\* goes on.
ClientLiveSpec ==
  ClientLiveInit /\ [][ClientNext]_vars /\ WF_vars(SodiumReady) /\ WF_vars(Resume)

\* C16: createEd25519CryptoUtils returns its utils only once sodium.ready has
\* resolved: whenever decryptWithPrivateKey has been called, and whenever
\* crypto_box_open_easy has been called in it, the library was ready at the
\* call; and every construction that waits at `await sodium.ready`, the first
\* and each later one, gets its utils.
C16_ReadyBeforeDecrypt ==
  /\ [](req.ed.built => sodium.ready)
  /\ [](req.ed.called => req.ed.readyWhenCalled)
  /\ [](req.ed.did.box.called => req.ed.readyWhenCalled)
  /\ (req.phase = "awaitingReady") ~> req.ed.built

\* A second request got its utils from a second construction and resolved
\* with what decryptWithPrivateKey returned.
C16_Witness ==
  /\ sodium.awaits = 2
  /\ req.phase = "resolved"
  /\ req.ed.built /\ req.ed.called /\ req.ed.readyWhenCalled
  /\ req.ed.did.box.called

\* What post encrypts: the payload itself when it is a string, its JSON text
\* otherwise.
PlainTextOf(payload) ==
  IF TypeOf(payload) = "string" THEN payload ELSE JSON_stringify(payload)

\* C18: the body of every POST request issued is the envelope encryptData
\* returns for the payload (a string) or for JSON.stringify(payload), made
\* with the iv drawn before the request: its iv field is the base64 text of
\* that iv and its content decrypts, under the client's passphrase, to the
\* text; the body is an envelope and not the text, nothing is issued when
\* encryption throws, and a GET request carries no body.
C18_PostSendsEnvelope ==
  /\ (req.sent.issued /\ req.sent.verb = "POST") =>
        /\ req.method \in PostMethods
        /\ TypeOf(PlainTextOf(req.data)) = "string"
        /\ req.sent.hasBody
        /\ req.sent.body = encryptData(createCryptoUtils(config.encryptionKey),
                                       ContentOf(PlainTextOf(req.data)), req.iv)
        /\ req.sent.body.iv = base64Encode(req.iv)
        /\ req.sent.body.content # ContentOf(PlainTextOf(req.data))
        /\ decryptData(createCryptoUtils(config.encryptionKey), req.sent.body)
             = Returned(ContentOf(PlainTextOf(req.data)))
  /\ (req.method \in PostMethods /\ req.phase # "idle"
        /\ TypeOf(PlainTextOf(req.data)) # "string") =>
        /\ ~req.sent.issued
        /\ req.phase = "rejected"
  /\ (req.sent.issued /\ req.sent.verb = "GET") =>
        /\ req.method \in GetMethods
        /\ ~req.sent.hasBody
        /\ req.sent.body = NoEnvelope
  /\ req.phase \notin {"idle", "rejected"} => req.sent.issued

\* withdraw was called with an object and its JSON text went out encrypted.
C18_Witness ==
  /\ req.method = "withdraw"
  /\ TypeOf(req.data) = "object"
  /\ req.sent.issued /\ req.sent.verb = "POST" /\ req.sent.url = "/withdraw"
  /\ Len(req.sent.body.content) = 24

\* A string went out encrypted as it is, a GET without body, and a payload
\* of undefined was refused before any request.
C18_WitnessString ==
  /\ TypeOf(req.data) = "string" /\ req.sent.issued /\ req.sent.verb = "POST"
C18_WitnessGet ==
  /\ req.method = "getBalance" /\ req.sent.issued /\ req.sent.verb = "GET"
C18_WitnessRefused ==
  /\ req.method \in PostMethods /\ req.data = Undef /\ req.phase = "rejected"
  /\ ~req.sent.issued

\* C19: whenever get or post has called decryptWithPrivateKey on a response,
\* the key argument was config.privateKey.
C19_DecryptsWithPrivateKey ==
  req.ed.called => req.ed.key = config.privateKey

\* What holds of the code: get hands over config.privateKey, post the
\* passphrase config.encryptionKey, in which parseOpenSSHPrivateKey finds no
\* key, so that no post resolves.
C19_GetPrivateKeyPostEncryptionKey ==
  /\ (req.ed.called /\ req.sent.verb = "GET") => req.ed.key = config.privateKey
  /\ (req.ed.called /\ req.sent.verb = "POST") =>
        /\ req.ed.key = linesOfString(config.encryptionKey)
        /\ req.ed.key # config.privateKey
        /\ req.phase = "rejected"
        /\ ~req.ed.did.box.called
C19_WitnessPost ==
  /\ req.ed.called /\ req.sent.verb = "POST" /\ req.env.opens
  /\ req.phase = "rejected"

\* C20: an endpoint method that got a response { status, message, data }
\* returns statusCode = status, message = message, data = the value parsed
\* from the decrypted text and _metadata.path = the path of the endpoint,
\* and it returns whenever the box opened on a JSON text.
C20_FormattedAsBody ==
  /\ req.phase = "resolved" =>
        /\ req.out.statusCode = getMember(req.response, key_status)
        /\ req.out.message = getMember(req.response, key_message)
        /\ req.out.data = JSON_parse(req.ed.did.out.value).value
        /\ req.out.path = pathOf(req.method)
  /\ (req.ed.called /\ req.env.opens
        /\ JSON_parse(utf8Decode(req.env.holds)).kind = "returned") =>
        req.phase = "resolved"

\* What holds of the code for a get method: the fields are as the claim
\* says unless the payload is falsy or has a truthy member named status,
\* message or data.
PlainPayload(x) ==
  /\ truthyValue(x)
  /\ ~truthyValue(getMember(x, key_status))
  /\ ~truthyValue(getMember(x, key_message))
  /\ ~truthyValue(getMember(x, key_data))
C20_PlainPayloads ==
  (req.phase = "resolved" /\ PlainPayload(JSON_parse(req.ed.did.out.value).value)) =>
    /\ req.out.statusCode = getMember(req.response, key_status)
    /\ req.out.message = getMember(req.response, key_message)
    /\ req.out.data = JSON_parse(req.ed.did.out.value).value
    /\ req.out.path = pathOf(req.method)
C20_WitnessPlain ==
  /\ req.phase = "resolved" /\ req.method = "getTransactionHistory"
  /\ req.out.data = Obj(<< <<key_balance, Num(100)>> >>)
  /\ req.out.statusCode = Num(201)
C20_WitnessFalsy ==
  /\ req.phase = "resolved" /\ req.method = "getBalance"
  /\ JSON_parse(req.ed.did.out.value).value = Num(0)
  /\ req.out.data = spreadWith(req.response, key_data, Num(0))

\* --------------------------------------- the engines under concurrent callers
\* Two callers share the engines; a call is taken statement by statement, and
\* the statements of calls in flight are interleaved in every order (more
\* orders than one JavaScript thread produces, which runs encryptData and
\* decryptData to their return and decryptWithPrivateKey, which awaits
\* nothing, to the settling of its promise).
ConcPlaintexts == {<<65>>, <<8364>>}
ConcEnvelopes ==
  {encryptData(createCryptoUtils("myEncryptionKey"), data, iv) :
     data \in ConcPlaintexts, iv \in randomBytes(BlockSize)}
ConcModifiers == {Undefined, "mod"}
ConcSealedLens == {56 + MaxBody, 80}

\* (Mutant: the bindings are hoisted out of the function: every call uses
\* the same ones.)
frameOfHoisted(t) == 1
\* The parameters and the const and let bindings of a call are created by
\* the call: every call has its own.
frameOf(t) == t

InFlight(c) == c.phase \notin {"idle", "settled"}
OtherInFlight(t) == \E o \in TaskIds \ {t} : InFlight(calls.task[o])

ConcInit ==
  /\ cryptoUtils = [e \in EngineIds |->
                      createCryptoUtils(IF e = 1 THEN "myEncryptionKey" ELSE "otherKey")]
  /\ configured = [e \in EngineIds |-> Undefined]
  /\ enc = NoEnc
  /\ wire = NoWire
  /\ dec = NoDec
  /\ edUtils \in {createEd25519CryptoUtils(m) : m \in ConcModifiers}
  /\ edCall = NoCall
  /\ sodium = [ready |-> TRUE, awaits |-> 1]
  /\ config = NoConfig
  /\ req = NoRequest
  /\ calls = NoCalls
  /\ built = [encryptionKey |-> [e \in EngineIds |-> cryptoUtils[e].encryptionKey],
              encryptionModifier |-> edUtils.encryptionModifier]
  /\ formatted = NoFormat
  /\ axiosInstance = NoInstance

\* The state after a statement of call t: what the caller knows of the call
\* and the bindings the statement wrote.
stepped(t, call, frame) ==
  [task |-> [calls.task EXCEPT ![t] = [call EXCEPT !.among = @ \/ OtherInFlight(t)]],
   frame |-> [calls.frame EXCEPT ![frameOf(t)] = frame]]

\* encryptData(data) is called on engine e: data is bound.
CallEncryptData(t, e, data) ==
  /\ ~InFlight(calls.task[t])
  /\ calls' = stepped(t, [IdleCall EXCEPT !.phase = "called", !.op = "encryptData",
                                          !.engine = e, !.text = data],
                      [NoFrame EXCEPT !.text = data])
  /\ UNCHANGED <<cryptoUtils, configured, enc, wire, dec, edUtils, edCall,
                 sodium, config, req, built, formatted, axiosInstance>>

\* decryptData(encrypted) is called on engine e.
CallDecryptData(t, e, encrypted) ==
  /\ ~InFlight(calls.task[t])
  /\ calls' = stepped(t, [IdleCall EXCEPT !.phase = "called", !.op = "decryptData",
                                          !.engine = e, !.encrypted = encrypted],
                      [NoFrame EXCEPT !.encrypted = encrypted])
  /\ UNCHANGED <<cryptoUtils, configured, enc, wire, dec, edUtils, edCall,
                 sodium, config, req, built, formatted, axiosInstance>>

\* decryptWithPrivateKey(privateKey, encryptedData) is called; env is what
\* the box will do for this call.
CallDecryptWithPrivateKey(t, privateKey, encryptedData, env) ==
  /\ ~InFlight(calls.task[t])
  /\ edUtils.ready
  /\ calls' = stepped(t, [IdleCall EXCEPT !.phase = "called",
                                          !.op = "decryptWithPrivateKey",
                                          !.privateKey = privateKey,
                                          !.encryptedData = encryptedData,
                                          !.env = env],
                      [NoFrame EXCEPT !.privateKey = privateKey,
                                      !.encryptedData = encryptedData])
  /\ UNCHANGED <<cryptoUtils, configured, enc, wire, dec, edUtils, edCall,
                 sodium, config, req, built, formatted, axiosInstance>>

\* const key = deriveKey(): the captured encryptionKey is read.
DeriveKey(t) ==
  /\ calls.task[t].phase = "called"
  /\ calls.task[t].op \in {"encryptData", "decryptData"}
  /\ calls' = stepped(t, [calls.task[t] EXCEPT !.phase = "keyed"],
                      [calls.frame[frameOf(t)] EXCEPT
                         !.encryptionKey = cryptoUtils[calls.task[t].engine].encryptionKey])
  /\ UNCHANGED <<cryptoUtils, configured, enc, wire, dec, edUtils, edCall,
                 sodium, config, req, built, formatted, axiosInstance>>

\* const iv = crypto.randomBytes(16).
DrawIv(t, iv) ==
  /\ calls.task[t].phase = "keyed"
  /\ calls.task[t].op = "encryptData"
  /\ calls' = stepped(t, [calls.task[t] EXCEPT !.phase = "drawn", !.iv = iv],
                      [calls.frame[frameOf(t)] EXCEPT !.iv = iv])
  /\ UNCHANGED <<cryptoUtils, configured, enc, wire, dec, edUtils, edCall,
                 sodium, config, req, built, formatted, axiosInstance>>

\* The cipher runs on the bindings and encryptData returns.
ReturnEncrypted(t) ==
  /\ calls.task[t].phase = "drawn"
  /\ calls' = stepped(t, [calls.task[t] EXCEPT
                            !.phase = "settled",
                            !.out = Returned(encryptData(
                                      createCryptoUtils(calls.frame[frameOf(t)].encryptionKey),
                                      calls.frame[frameOf(t)].text,
                                      calls.frame[frameOf(t)].iv))],
                      calls.frame[frameOf(t)])
  /\ UNCHANGED <<cryptoUtils, configured, enc, wire, dec, edUtils, edCall,
                 sodium, config, req, built, formatted, axiosInstance>>

\* The decipher runs on the bindings and decryptData returns or throws.
ReturnDecrypted(t) ==
  /\ calls.task[t].phase = "keyed"
  /\ calls.task[t].op = "decryptData"
  /\ calls' = stepped(t, [calls.task[t] EXCEPT
                            !.phase = "settled",
                            !.out = decryptData(
                                      createCryptoUtils(calls.frame[frameOf(t)].encryptionKey),
                                      calls.frame[frameOf(t)].encrypted)],
                      calls.frame[frameOf(t)])
  /\ UNCHANGED <<cryptoUtils, configured, enc, wire, dec, edUtils, edCall,
                 sodium, config, req, built, formatted, axiosInstance>>

\* The body of decryptWithPrivateKey runs on its bindings and the captured
\* modifier; its promise holds what came of it.
RunDecryptWithPrivateKey(t) ==
  /\ calls.task[t].phase = "called"
  /\ calls.task[t].op = "decryptWithPrivateKey"
  /\ calls' = stepped(t, [calls.task[t] EXCEPT !.phase = "ran"],
                      [calls.frame[frameOf(t)] EXCEPT
                         !.result = decryptWithPrivateKey(
                                      edUtils, calls.frame[frameOf(t)].privateKey,
                                      calls.frame[frameOf(t)].encryptedData,
                                      calls.task[t].env).out])
  /\ UNCHANGED <<cryptoUtils, configured, enc, wire, dec, edUtils, edCall,
                 sodium, config, req, built, formatted, axiosInstance>>

\* The caller's await gets what the promise holds.
Settle(t) ==
  /\ calls.task[t].phase = "ran"
  /\ calls' = stepped(t, [calls.task[t] EXCEPT !.phase = "settled",
                                               !.out = calls.frame[frameOf(t)].result],
                      calls.frame[frameOf(t)])
  /\ UNCHANGED <<cryptoUtils, configured, enc, wire, dec, edUtils, edCall,
                 sodium, config, req, built, formatted, axiosInstance>>

ConcNext ==
  \/ \E t \in TaskIds, e \in EngineIds, data \in ConcPlaintexts : CallEncryptData(t, e, data)
  \/ \E t \in TaskIds, e \in EngineIds, encrypted \in ConcEnvelopes :
       CallDecryptData(t, e, encrypted)
  \/ \E t \in TaskIds, privateKey \in ClientPrivateKeys, n \in ConcSealedLens,
        env \in BoxEnvs : CallDecryptWithPrivateKey(t, privateKey, sealedMessage(n), env)
  \/ \E t \in TaskIds : DeriveKey(t)
  \/ \E t \in TaskIds, iv \in randomBytes(BlockSize) : DrawIv(t, iv)
  \/ \E t \in TaskIds : ReturnEncrypted(t)
  \/ \E t \in TaskIds : ReturnDecrypted(t)
  \/ \E t \in TaskIds : RunDecryptWithPrivateKey(t)
  \/ \E t \in TaskIds : Settle(t)

ConcSpec == ConcInit /\ [][ConcNext]_vars

\* What a call returns when it runs alone on engines built with the given
\* arguments, with the same inputs, the same draw and the same box.
Alone(c) ==
  CASE c.op = "encryptData" ->
         Returned(encryptData(createCryptoUtils(built.encryptionKey[c.engine]), c.text, c.iv))
    [] c.op = "decryptData" ->
         decryptData(createCryptoUtils(built.encryptionKey[c.engine]), c.encrypted)
    [] c.op = "decryptWithPrivateKey" ->
         decryptWithPrivateKey(createEd25519CryptoUtils(built.encryptionModifier),
                               c.privateKey, c.encryptedData, c.env).out

\* C17: however the statements of encryptData, decryptData and
\* decryptWithPrivateKey calls on shared engines are interleaved, every
\* settled call has returned what it returns alone with its inputs and its
\* draw; the bindings of a call in flight hold what that call put there; and
\* the engines hold the passphrase and the modifier they were built with.
C17_CallsIndependent ==
  /\ \A t \in TaskIds :
        calls.task[t].phase = "settled" => calls.task[t].out = Alone(calls.task[t])
  /\ \A t \in TaskIds :
        InFlight(calls.task[t]) =>
          /\ calls.frame[t].text = calls.task[t].text
          /\ calls.frame[t].encrypted = calls.task[t].encrypted
          /\ calls.frame[t].privateKey = calls.task[t].privateKey
          /\ calls.frame[t].encryptedData = calls.task[t].encryptedData
          /\ calls.frame[t].iv = calls.task[t].iv
          /\ calls.task[t].phase \in {"keyed", "drawn"} =>
                calls.frame[t].encryptionKey = built.encryptionKey[calls.task[t].engine]
  /\ \A e \in EngineIds : cryptoUtils[e] = createCryptoUtils(built.encryptionKey[e])
  /\ edUtils = createEd25519CryptoUtils(built.encryptionModifier)

\* An encryptData and a decryptData call on the same engine, each with
\* statements taken while the other was in flight, have both settled, the
\* decryptData call with the text.
C17_Witness ==
  /\ calls.task[1].phase = "settled" /\ calls.task[1].op = "encryptData"
  /\ calls.task[2].phase = "settled" /\ calls.task[2].op = "decryptData"
  /\ calls.task[1].engine = 1 /\ calls.task[2].engine = 1
  /\ calls.task[1].among /\ calls.task[2].among
  /\ calls.task[2].out.kind = "returned"

\* Two decryptWithPrivateKey calls settled, the promise of the first still
\* pending when the second ran; one opened its box, the other did not.
C17_WitnessEd ==
  /\ \A t \in TaskIds : /\ calls.task[t].phase = "settled"
                         /\ calls.task[t].op = "decryptWithPrivateKey"
                         /\ calls.task[t].among
  /\ calls.task[1].out.kind = "returned"
  /\ calls.task[2].out.kind = "threw"

\* ------------------------------------------------- claims, the client's errors
\* A call that has just begun: its request issued and nothing received, or
\* refused before any request.
Fresh(r) ==
  /\ r.ed = NoEd /\ r.response = Undef /\ r.raw = Threw(NoError)
  /\ \/ r.phase = "requested" /\ r.sent.issued /\ r.handled = 0
     \/ r.phase = "rejected" /\ ~r.sent.issued /\ r.handled <= 1

\* The catch block has run for a failure of the request, of the decryption
\* or of JSON.parse.
FailedInside ==
  /\ req.phase = "rejected"
  /\ \/ req.cause.name = "AxiosError"
     \/ req.ed.called /\ req.raw.kind = "threw"

\* C21: a call that failed has called the errorHandler, when one is
\* configured, once and with the error caught, and has rejected with
\* formatApiError(error, { path: endpoint }), with or without errorHandler;
\* a call whose decryption or parsing threw has not resolved.
C21_HandledOnceThenFormatted ==
  /\ req.phase = "rejected" =>
        /\ req.handled = IF config.errorHandler THEN 1 ELSE 0
        /\ config.errorHandler => req.handledWith = req.cause
        /\ req.out = formatApiError(req.cause, endpointOf(req.method))
  /\ (req.ed.called /\ req.raw.kind = "threw") => req.phase = "rejected"

\* C21 as the code has it: the errorHandler is called once with the error
\* caught; the call rejects with formatApiError's Error when there is no
\* errorHandler or the errorHandler returned, and with what the errorHandler
\* threw when it threw; a failed call does not resolve, and a call that has
\* rejected takes no further step and issues no second request: what
\* follows is a new call.
C21_HandledOnceThenRejected ==
  /\ [](req.phase = "rejected" =>
          /\ req.handled = IF config.errorHandler THEN 1 ELSE 0
          /\ config.errorHandler => req.handledWith = req.cause
          /\ req.out = IF config.errorHandler /\ config.handlerThrows
                         THEN HandlerThrew
                         ELSE formatApiError(req.cause, endpointOf(req.method)))
  /\ []((req.ed.called /\ req.raw.kind = "threw") => req.phase = "rejected")
  /\ [](req.phase = "resolved" => (req.handled = 0 /\ req.raw.kind = "returned"))
  /\ [][req.phase = "rejected" => (req' = req \/ Fresh(req'))]_vars
  /\ [][req.sent.issued => (req'.sent = req.sent \/ Fresh(req'))]_vars

\* getBalance got a response whose box did not open: the errorHandler was
\* called once, with the error decryptWithPrivateKey threw, and the call
\* rejected with the formatted Error.
C21_Witness ==
  /\ req.method = "getBalance" /\ FailedInside
  /\ req.ed.called /\ req.ed.did.box.called
  /\ config.errorHandler /\ ~config.handlerThrows
  /\ req.handled = 1 /\ req.handledWith = req.cause
  /\ req.out = formatApiError(req.cause, "/balance")

\* The request failed with no errorHandler configured; the request failed
\* and the errorHandler threw; the decrypted text was no JSON.
C21_WitnessNoHandler ==
  /\ FailedInside /\ req.cause.name = "AxiosError" /\ ~config.errorHandler
  /\ req.handled = 0 /\ req.out.statusCode = Num(400)
C21_WitnessHandlerThrew ==
  /\ FailedInside /\ req.cause.name = "AxiosError" /\ config.handlerThrows
  /\ req.handled = 1 /\ req.out = HandlerThrew
C21_WitnessParse ==
  /\ FailedInside /\ req.cause.name = "SyntaxError" /\ req.handled = 1

\* ------------------------------------- formatApiError and formatApiResponse
\* The two formatters called on their own, as client.formatApiError and
\* client.formatApiResponse. The errors: with and without message, without
\* response, with the responses of the repository's tests, and with
\* responses whose body holds an empty message, a status of 0, an empty or
\* zero error, null, or nothing.
ErrorResponses ==
  {Undef,
   Obj(<< <<key_data, Obj(<< <<key_message, Str(str_A)>>, <<key_status, Num(404)>>,
                             <<key_data, Obj(<< <<key_error, Str(str_OK)>> >>)>> >>)>> >>),
   Obj(<< <<key_data, Obj(<< <<key_status, Num(400)>>,
                             <<key_data, Obj(<< <<key_error, Str(str_OK)>> >>)>> >>)>> >>),
   Obj(<< <<key_status, Num(402)>>, <<key_data, Str(str_A)>> >>),
   Obj(<< <<key_status, Num(400)>>,
          <<key_data, Obj(<< <<key_status, Num(404)>>, <<key_message, Str(str_A)>>,
                             <<key_error, Str(str_OK)>> >>)>> >>),
   Obj(<< <<key_status, Num(400)>>,
          <<key_data, Obj(<< <<key_message, Str(<<>>)>>, <<key_status, Num(0)>>,
                             <<key_data, Obj(<< <<key_error, Str(<<>>)>> >>)>> >>)>> >>),
   Obj(<< <<key_status, Num(400)>>,
          <<key_data, Obj(<< <<key_message, Str(str_A)>>, <<key_status, Num(404)>>,
                             <<key_data, Obj(<< <<key_error, Num(0)>> >>)>> >>)>> >>),
   Obj(<< <<key_status, Num(500)>>, <<key_data, Null>> >>),
   Obj(<<>>)}
FormatErrors ==
  {Caught([name |-> n, message |-> m], r) :
     n \in {"Error", "AxiosError"},
     m \in {"", "Fallback message", "Network Error"},
     r \in ErrorResponses}

\* What formatApiResponse is handed: the objects of the repository's tests
\* (nested, top-level, body without data, empty), what get returns for a
\* payload that is an object, an array, 0, "" or null, and bodies whose
\* status, message or data is 0, "" or null.
ApiResponses ==
  {Obj(<< <<key_data, Obj(<< <<key_status, Num(201)>>, <<key_message, Str(str_A)>>,
                             <<key_data, Obj(<< <<key_balance, Num(100)>> >>)>> >>)>> >>),
   Obj(<< <<key_status, Num(202)>>, <<key_message, Str(str_A)>> >>),
   Obj(<< <<key_data, Obj(<< <<key_status, Num(203)>>, <<key_message, Str(str_A)>>,
                             <<key_balance, Num(100)>> >>)>> >>),
   Obj(<<>>),
   Obj(<< <<key_status, Num(200)>>, <<key_message, Str(str_OK)>>,
          <<key_data, Obj(<< <<key_balance, Num(100)>> >>)>> >>),
   Obj(<< <<key_status, Num(200)>>, <<key_message, Str(str_OK)>>,
          <<key_data, Arr(<<Num(1), Num(2)>>)>> >>),
   Obj(<< <<key_status, Num(200)>>, <<key_message, Str(str_OK)>>, <<key_data, Num(0)>> >>),
   Obj(<< <<key_status, Num(200)>>, <<key_message, Str(str_OK)>>, <<key_data, Str(<<>>)>> >>),
   Obj(<< <<key_status, Num(200)>>, <<key_message, Str(str_OK)>>, <<key_data, Null>> >>),
   Obj(<< <<key_status, Num(200)>>, <<key_message, Str(str_OK)>>,
          <<key_data, Obj(<< <<key_status, Num(0)>>, <<key_message, Str(<<>>)>>,
                             <<key_data, Num(0)>> >>)>> >>),
   Obj(<< <<key_status, Num(200)>>, <<key_message, Str(str_OK)>>,
          <<key_data, Obj(<< <<key_data, Null>> >>)>> >>),
   Obj(<< <<key_status, Num(0)>>, <<key_data, Obj(<< <<key_balance, Num(100)>> >>)>> >>)}
FormatPaths == {"/test", "/balance"}

FormatInit ==
  /\ cryptoUtils = [e \in EngineIds |-> createCryptoUtils("myEncryptionKey")]
  /\ configured = [e \in EngineIds |-> Undefined]
  /\ enc = NoEnc
  /\ wire = NoWire
  /\ dec = NoDec
  /\ edUtils = createEd25519CryptoUtils(Undefined)
  /\ edCall = NoCall
  /\ sodium = [ready |-> TRUE, awaits |-> 1]
  /\ config = NoConfig
  /\ req = NoRequest
  /\ calls = NoCalls
  /\ built = NoBuilt
  /\ formatted = NoFormat
  /\ axiosInstance = NoInstance

\* client.formatApiError(error, { path }).
FormatApiError(error, path) ==
  /\ formatted' = [fn |-> "formatApiError", error |-> error, apiResponse |-> Undef,
                   path |-> path, out |-> formatApiError(error, path)]
  /\ UNCHANGED <<cryptoUtils, configured, enc, wire, dec, edUtils, edCall,
                 sodium, config, req, calls, built, axiosInstance>>

\* client.formatApiResponse(apiResponse, { path }).
FormatApiResponse(apiResponse, path) ==
  /\ formatted' = [fn |-> "formatApiResponse", error |-> NoCause,
                   apiResponse |-> apiResponse, path |-> path,
                   out |-> formatApiResponse(apiResponse, path)]
  /\ UNCHANGED <<cryptoUtils, configured, enc, wire, dec, edUtils, edCall,
                 sodium, config, req, calls, built, axiosInstance>>

FormatNext ==
  \/ \E error \in FormatErrors, path \in FormatPaths : FormatApiError(error, path)
  \/ \E apiResponse \in ApiResponses, path \in FormatPaths :
       FormatApiResponse(apiResponse, path)

FormatSpec == FormatInit /\ [][FormatNext]_vars

\* ------------------------------------------------------ claims, the formatters
\* The first of three values that is defined, and the first that is truthy;
\* the last is taken when the others are not.
FirstDefined(a, b, c) == IF IsDefined(a) THEN a ELSE IF IsDefined(b) THEN b ELSE c
FirstTruthy(a, b, c) == IF truthyValue(a) THEN a ELSE IF truthyValue(b) THEN b ELSE c

\* What formatApiError reads: error.response.data.message, error.message,
\* error.response.data.status, error.response.status,
\* error.response.data.data.error, error.response.data.
ErrBody == getMember(formatted.error.response, key_data)
ErrBodyMessage == getMember(ErrBody, key_message)
ErrMessage == IF formatted.error.message = "" THEN Undef ELSE Text(formatted.error.message)
ErrBodyStatus == getMember(ErrBody, key_status)
ErrStatus == getMember(formatted.error.response, key_status)
ErrBodyError == getMember(getMember(ErrBody, key_data), key_error)
ErrString == Obj(<< <<key_error, Text(errToString(formatted.error))>> >>)

C22_WitnessDefaults ==
  /\ formatted.fn = "formatApiError"
  /\ formatted.error = Caught([name |-> "Error", message |-> ""], Undef)
  /\ formatted.out.message = Text("An error occurred")
  /\ formatted.out.statusCode = Num(500)
  /\ formatted.out.data = Obj(<< <<key_error, Text("Error")>> >>)
C22_WitnessFalsy ==
  /\ formatted.fn = "formatApiError"
  /\ ErrBodyMessage = Str(<<>>) /\ ErrBodyStatus = Num(0)
  /\ formatted.out.message = Text("Network Error")
  /\ formatted.out.statusCode = Num(400)
  /\ formatted.out.data = ErrBody

\* Whether an object has a property of the name.
hasMember(x, key) ==
  /\ TypeOf(x) = "object"
  /\ \E i \in 1..Len(ContentOf(x)) : ContentOf(x)[i][1] = key

ResBody == getMember(formatted.apiResponse, key_data)

\* C23: formatApiResponse's statusCode is apiResponse.data.status when
\* apiResponse.data has a status, else apiResponse.status, else 200; its
\* data is apiResponse.data.data when apiResponse.data has a data property,
\* else apiResponse.data when apiResponse has a data property, else
\* apiResponse; its _metadata.path is the given path.
C23_NestedWhenPresent ==
  formatted.fn = "formatApiResponse" =>
    /\ formatted.out.statusCode =
         IF hasMember(ResBody, key_status) THEN getMember(ResBody, key_status)
         ELSE IF hasMember(formatted.apiResponse, key_status)
           THEN getMember(formatted.apiResponse, key_status)
         ELSE Num(200)
    /\ formatted.out.data =
         IF hasMember(ResBody, key_data) THEN getMember(ResBody, key_data)
         ELSE IF hasMember(formatted.apiResponse, key_data) THEN ResBody
         ELSE formatted.apiResponse
    /\ formatted.out.path = formatted.path

\* What holds of the code: the nested value is used when it is truthy, not
\* when it is present.
C23_NestedWhenTruthy ==
  formatted.fn = "formatApiResponse" =>
    /\ formatted.out.statusCode =
         FirstTruthy(getMember(ResBody, key_status),
                     getMember(formatted.apiResponse, key_status), Num(200))
    /\ formatted.out.data =
         FirstTruthy(getMember(ResBody, key_data), ResBody, formatted.apiResponse)
    /\ formatted.out.path = formatted.path
C23_WitnessNested ==
  /\ formatted.fn = "formatApiResponse" /\ formatted.path = "/test"
  /\ formatted.out.statusCode = Num(201)
  /\ formatted.out.data = Obj(<< <<key_balance, Num(100)>> >>)
C23_WitnessZero ==
  /\ formatted.fn = "formatApiResponse"
  /\ ResBody = Num(0)
  /\ formatted.out.data = formatted.apiResponse

\* ----------------------------------------------------- creating the client
\* createCngnApiClient(config) for the configs of users: before it there is
\* no instance; it merges the axiosConfig, creates the instance and the
\* symmetric engine.
CreateInit ==
  /\ cryptoUtils = [e \in EngineIds |-> createCryptoUtils("")]
  /\ configured = [e \in EngineIds |-> Undefined]
  /\ enc = NoEnc
  /\ wire = NoWire
  /\ dec = NoDec
  /\ edUtils = [encryptionModifier |-> Undefined, ready |-> FALSE]
  /\ edCall = NoCall
  /\ sodium = [ready |-> FALSE, awaits |-> 0]
  /\ config = NoConfig
  /\ req = NoRequest
  /\ calls = NoCalls
  /\ built = NoBuilt
  /\ formatted = NoFormat
  /\ axiosInstance = NoInstance

CreateCngnApiClient(made, axiosConfig) ==
  /\ config' = made
  /\ axiosInstance' = createAxiosInstance(made.apiKey, axiosConfig)
  /\ cryptoUtils' = [e \in EngineIds |-> createCryptoUtils(made.encryptionKey)]
  /\ UNCHANGED <<configured, enc, wire, dec, edUtils, edCall, sodium, req, calls,
                 built, formatted>>

CreateNext ==
  \E apiKey \in ApiKeys, made \in Configs, axiosConfig \in AxiosConfigs :
    ~made.errorHandler /\ CreateCngnApiClient([made EXCEPT !.apiKey = apiKey], axiosConfig)

CreateSpec == CreateInit /\ [][CreateNext]_vars

\* ------------------------------------------------- claims, the merged config
MergedHeaders == getMember(axiosInstance.defaults, "headers")
UserHeadersGiven == getMember(axiosInstance.axiosConfig, "headers")
namesOf(x) ==
  IF TypeOf(x) = "object" THEN {ContentOf(x)[i][1] : i \in 1..Len(ContentOf(x))} ELSE {}

\* C24: for every axiosConfig of the user the instance is created with
\* baseURL https://api.cngn.co/v1/api, header Authorization 'Bearer <apiKey>'
\* and header Content-Type 'application/json', whatever the user config says
\* of them, and with every other header and option of the user as given.
C24_ForcedOverUser ==
  axiosInstance.created =>
    /\ getMember(axiosInstance.defaults, "baseURL") = Text("https://api.cngn.co/v1/api")
    /\ getMember(MergedHeaders, "Authorization") = Text("Bearer " \o axiosInstance.apiKey)
    /\ getMember(MergedHeaders, "Content-Type") = Text("application/json")
    /\ namesOf(axiosInstance.defaults) =
         namesOf(axiosInstance.axiosConfig) \cup {"baseURL", "headers"}
    /\ \A name \in namesOf(axiosInstance.axiosConfig) \ {"baseURL", "headers"} :
         getMember(axiosInstance.defaults, name) = getMember(axiosInstance.axiosConfig, name)
    /\ namesOf(MergedHeaders) = namesOf(UserHeadersGiven) \cup {"Authorization", "Content-Type"}
    /\ \A name \in namesOf(UserHeadersGiven) \ {"Authorization", "Content-Type"} :
         getMember(MergedHeaders, name) = getMember(UserHeadersGiven, name)

\* A user config that sets baseURL, Authorization and Content-Type, a header
\* of its own and a timeout: the three are the forced ones, the two are kept.
C24_Witness ==
  /\ axiosInstance.created
  /\ getMember(axiosInstance.axiosConfig, "baseURL") = Text("http://localhost:3000")
  /\ getMember(UserHeadersGiven, "Authorization") = Text("Bearer another")
  /\ getMember(UserHeadersGiven, "Content-Type") = Text("text/plain")
  /\ getMember(axiosInstance.defaults, "baseURL") = Text("https://api.cngn.co/v1/api")
  /\ getMember(MergedHeaders, "Authorization") = Text("Bearer " \o axiosInstance.apiKey)
  /\ getMember(MergedHeaders, "X-Custom-Header") = Text("customValue")
  /\ getMember(axiosInstance.defaults, "timeout") = Num(1000)

\* No axiosConfig at all: the merged config is the forced one.
C24_WitnessNone ==
  /\ axiosInstance.created
  /\ axiosInstance.axiosConfig = Undef
  /\ axiosInstance.defaults = forcedConfig(axiosInstance.apiKey)

\* ------------------------------------------- claims, modifiers and key sizes
\* The digests of two modifiers differ within their first 16 bytes.
DigestsDiffer(m1, m2) == SubSeq(sha256(m1), 1, BlockSize) # SubSeq(sha256(m2), 1, BlockSize)

\* C25: an envelope made for a non-empty S by an engine configured with
\* modifier M, decrypted by an engine with the same passphrase configured
\* with another modifier M' whose digest differs from M's in the first 16
\* bytes, does not come back as S: the iv decrypt uses is not the iv encrypt
\* used, and the call fails or returns another string.
C25_OtherModifierNeverS ==
  (/\ dec.done /\ Unaltered /\ SamePassphrase
   /\ enc.data # <<>>
   /\ configured[enc.engine] # Undefined /\ configured[dec.engine] # Undefined
   /\ DigestsDiffer(configured[enc.engine], configured[dec.engine]))
    => dec.out # Returned(enc.data)

\* What the engines do: the modifier of the config plays no part, the
\* envelope of a well-formed S comes back as S under any two modifiers.
C25_ModifierPlaysNoPart ==
  (/\ dec.done /\ Unaltered /\ SamePassphrase /\ WellFormed(enc.data))
    => /\ dec.out = Returned(enc.data)
       /\ base64Decode(dec.input.iv) = enc.iv
C25_WitnessOtherModifier ==
  /\ dec.done /\ Unaltered /\ SamePassphrase
  /\ enc.data # <<>>
  /\ configured[enc.engine] = "m1" /\ configured[dec.engine] = "m2"
  /\ dec.out = Returned(enc.data)

\* C26: whenever key parsing succeeds, the raw signing key it returns is
\* exactly 64 bytes long, also when the first marker lies fewer than 64 bytes
\* before the end of the decoded body.
C26_ParsedKeyIs64Bytes ==
  (edCall.done /\ edCall.did.parsed.kind = "returned")
    => Len(edCall.did.parsed.value) = crypto_sign_SECRETKEYBYTES

\* What the code does with a body that ends fewer than 64 bytes behind the
\* marker: parsing returns the bytes there are, the key conversion refuses
\* them, and the call rejects with its TypeError before the box is opened.
BehindMarker == Len(DecodedBody) - (indexOf(DecodedBody, Marker) + 4)
C26_ShortKeyRefusedLater ==
  (edCall.done /\ edCall.did.parsed.kind = "returned")
    => /\ Len(edCall.did.parsed.value) = Min(crypto_sign_SECRETKEYBYTES, BehindMarker)
       /\ Len(edCall.did.parsed.value) < crypto_sign_SECRETKEYBYTES
            => /\ edCall.did.out = Threw(TypeError("invalid privateKey length"))
               /\ ~edCall.did.box.called
C26_WitnessShort ==
  /\ edCall.done
  /\ edCall.did.parsed = Returned(Fill(40, 1))
  /\ edCall.did.out.kind = "threw"

\* ------------------------------------------------ claims, order of the steps
\* Where a statement stands among those a call ran, 0 when it did not run.
StepAt(name) ==
  LET at == {i \in 1..Len(edCall.did.steps) : edCall.did.steps[i] = name}
  IN  IF at = {} THEN 0 ELSE CHOOSE i \in at : TRUE
Before(first, second) == StepAt(second) # 0 => (StepAt(first) # 0 /\ StepAt(first) < StepAt(second))

\* C27: in every call the key is parsed before the sealed message is decoded
\* and before the box is opened; and for a key without the marker the call
\* rejects, whatever the sealed message, with 'Unable to find Ed25519 key
\* data', not inside 'Failed to decrypt with the provided...', and neither
\* the key conversion nor the box-opening step has been called.
C27_KeyParsedFirst ==
  edCall.done =>
    /\ StepAt("parseOpenSSHPrivateKey") = 1
    /\ Before("parseOpenSSHPrivateKey", "Buffer.from(encryptedData)")
    /\ Before("parseOpenSSHPrivateKey", "crypto_box_open_easy")
    /\ edCall.did.box.called <=> StepAt("crypto_box_open_easy") # 0
    /\ edCall.did.slices.taken <=> StepAt("subarray") # 0
    /\ ~HoldsMarker(DecodedBody)
         => /\ edCall.did.out.kind = "threw"
            /\ edCall.did.out.error.name = "Error"
            /\ edCall.did.out.error.message = "Unable to find Ed25519 key data"
            /\ StepAt("crypto_sign_ed25519_sk_to_curve25519") = 0
            /\ StepAt("Buffer.from(encryptedData)") = 0
            /\ StepAt("crypto_box_open_easy") = 0
            /\ ~edCall.did.box.called /\ ~edCall.did.slices.taken

\* A key without the marker, with a sealed message and a box that would
\* have opened: refused by the parser alone.
C27_Witness ==
  /\ edCall.done
  /\ ~HoldsMarker(DecodedBody)
  /\ edCall.len = 72 /\ edCall.env.opens /\ edCall.env.text
  /\ edCall.did.steps = <<"parseOpenSSHPrivateKey">>
  /\ edCall.did.out = Threw(Error("Unable to find Ed25519 key data"))
\* A call that opened the box: the key was parsed first.
C27_WitnessOpened ==
  /\ edCall.done
  /\ edCall.did.out.kind = "returned"
  /\ edCall.did.steps = StepsToTheBox

\* ------------------------------------------------ claims, short messages
\* C28: for a sealed message that decodes to fewer than 56 bytes the
\* ciphertext slice is empty and slicing raises no error: the box-opening
\* step is called with the empty ciphertext and it alone decides how the
\* call ends.
C28_ShortMessageLeftToTheBox ==
  (/\ edCall.done /\ Len(DecodedMessage) < crypto_box_NONCEBYTES + crypto_box_PUBLICKEYBYTES
   /\ edCall.did.parsed.kind = "returned"
   /\ Len(edCall.did.parsed.value) = crypto_sign_SECRETKEYBYTES)
    => /\ edCall.did.slices.taken
       /\ edCall.did.slices.ciphertext = <<>>
       /\ edCall.did.box.called
       /\ edCall.did.box.ciphertext = <<>>
       /\ BoxCause # NoError
       /\ edCall.did.out =
            Threw(Error(FailedToDecrypt \o BoxCause.name \o ": " \o BoxCause.message))

\* A message of 40 bytes, 16 more than a nonce: nothing is left for the
\* ciphertext, and the box refuses it.
C28_Witness ==
  /\ edCall.done /\ Len(DecodedMessage) = 40
  /\ edCall.did.slices.taken
  /\ Len(edCall.did.slices.nonce) = crypto_box_NONCEBYTES
  /\ edCall.did.slices.ciphertext = <<>>
  /\ edCall.did.box.called
  /\ BoxCause = TypeError("ciphertext is too short")
  /\ edCall.did.out.kind = "threw"
\* The empty message.
C28_WitnessEmpty ==
  /\ edCall.done /\ DecodedMessage = <<>>
  /\ edCall.did.slices.taken
  /\ edCall.did.box.called
  /\ edCall.did.out.kind = "threw"

\* ------------------------------------------------ claims, the empty modifier
\* The call made, as an engine constructed without modifier settles it.
WithoutModifier ==
  decryptWithPrivateKey(createEd25519CryptoUtils(Undefined), edCall.privateKey,
                        edCall.encryptedData, edCall.env)

\* C30: an engine constructed with '' as modifier behaves exactly like one
\* constructed without modifier: every call settles as it does there, and
\* the nonce passed to the box-opening step is the nonce of the message as
\* sent, not XORed with the digest of the empty string.
C30_EmptyModifierIsNone ==
  (edCall.done /\ edUtils.encryptionModifier = "")
    => /\ edCall.did = WithoutModifier
       /\ edCall.did.box.called
            => /\ edCall.did.box.nonce = subarray(DecodedMessage, 0, crypto_box_NONCEBYTES)
               /\ Len(DecodedMessage) >= crypto_box_NONCEBYTES
                    => edCall.did.box.nonce # XorBytes(edCall.did.box.nonce, sha256(""))

\* An engine with the empty modifier opened a box with the nonce as sent.
C30_Witness ==
  /\ edCall.done /\ edUtils.encryptionModifier = ""
  /\ edCall.did.box.called
  /\ Len(edCall.did.box.nonce) = crypto_box_NONCEBYTES
  /\ edCall.did.box.nonce = SubSeq(DecodedMessage, 1, crypto_box_NONCEBYTES)
  /\ edCall.did.out.kind = "returned"

\* ------------------------------------- claims, failures behind the response
\* The response arrived and what followed threw: the key parser, the key
\* conversion or the box inside decryptWithPrivateKey, or JSON.parse of the
\* decrypted text. Underlying is what was thrown.
FailedBehindResponse ==
  /\ req.ed.called
  /\ \/ req.ed.did.out.kind = "threw"
     \/ JSON_parse(req.ed.did.out.value).kind = "threw"
Underlying ==
  IF req.ed.did.out.kind = "threw" THEN req.ed.did.out.error
  ELSE JSON_parse(req.ed.did.out.value).error
FormattedAs500 ==
  /\ req.out.kind = "rejected"
  /\ req.out.statusCode = Num(500)
  /\ req.out.message = Text(Underlying.message)
  /\ req.out.data =
       Obj(<< <<key_error, Text(Underlying.name \o ": " \o Underlying.message)>> >>)
  /\ req.out.path = endpointOf(req.method)

\* C29: a get or post whose response arrived and whose key parsing, box
\* opening or JSON parsing threw rejects with an Error of statusCode 500,
\* with the message of what was thrown and with data { error: String(what
\* was thrown) }; it returns no response.
C29_RejectedAs500 ==
  FailedBehindResponse =>
    /\ req.phase = "rejected"
    /\ req.cause = Caught(Underlying, Undef)
    /\ FormattedAs500

\* C29 as the code has it: so it is when no errorHandler is configured or the
\* errorHandler returns; when the errorHandler throws, the call rejects with
\* what it threw. In no case is a response returned.
C29_RejectedAs500UnlessHandlerThrew ==
  FailedBehindResponse =>
    /\ req.phase = "rejected"
    /\ req.cause = Caught(Underlying, Undef)
    /\ IF config.errorHandler /\ config.handlerThrows
         THEN req.out = HandlerThrew
         ELSE FormattedAs500

\* getBalance: the box did not open, no errorHandler. And: the text was no
\* JSON; the key did not parse (a post, or a key without marker); the
\* errorHandler threw.
C29_Witness ==
  /\ FailedBehindResponse /\ req.method = "getBalance" /\ ~config.errorHandler
  /\ req.ed.did.box.called
  /\ Underlying.name = "Error"
  /\ req.out.statusCode = Num(500)
  /\ req.out.message = Text(Underlying.message)
C29_WitnessJson ==
  /\ FailedBehindResponse /\ req.ed.did.out.kind = "returned"
  /\ req.out.statusCode = Num(500)
  /\ req.out.data = Obj(<< <<key_error, Text("SyntaxError: Unexpected token")>> >>)
C29_WitnessKey ==
  /\ FailedBehindResponse
  /\ Underlying = Error("Unable to find Ed25519 key data")
  /\ req.out.message = Text("Unable to find Ed25519 key data")
C29_WitnessHandlerThrew ==
  /\ FailedBehindResponse /\ config.handlerThrows
  /\ req.out = HandlerThrew

====
